---- MODULE Spec2Model ----
(***************************************************************************)
(* Model of unified_report_generator.py: enforce_schema, the date          *)
(* normalizer (normalize_to_mm_yyyy, valid_mm_yyyy, parse_mm_yyyy),        *)
(* is_present_term, the language levels, translate_text and                *)
(* translate_json_values, parse_cv_to_json, build_context, and the button  *)
(* handlers of the Streamlit front ends.                                   *)
(*                                                                         *)
(* Python strings are sequences of one-character strings, so that strip(), *)
(* lower(), slicing, "in" and the regular expressions are computed and not *)
(* assumed.  A JSON scalar is a record [t |-> tag, v |-> characters].      *)
(***************************************************************************)
EXTENDS Integers, Sequences, FiniteSets, TLC

VARIABLES date_str,     \* normalizer: the raw date
          lang_code,    \* normalizer: the language code
          norm_result,  \* normalizer: the value returned
          json_in,      \* enforce_schema: the parsed LLM output
          enforced,     \* enforce_schema: the value returned
          data,         \* build_context: the candidate record passed in
          context,      \* build_context: the render context returned
          pads_year,    \* whether the C library's strftime pads %Y to four digits
          today,        \* the day on which the report is built (datetime.today())
          df_levels,    \* the reference table of language levels read at import time
          args,         \* a call of one function: the function and its arguments
          result,       \* that call: the value returned
          request,      \* a front-end request: the form's inputs and the environment
          json_data,    \* that request: the value returned by parse_cv_to_json
          pc,           \* that request: the position in the button handler
          document,     \* that request: the report document rendered, if any
          required_schema, \* the module-level REQUIRED_SCHEMA as it is now
          held          \* the template objects that records of earlier calls refer to

vars == <<date_str, lang_code, norm_result, json_in, enforced, data, context, pads_year,
          today, df_levels, args, result, request, json_data, pc, document,
          required_schema, held>>

normalizer_vars == <<date_str, lang_code, norm_result>>

enforce_vars == <<json_in, enforced>>

context_vars == <<data, context, pads_year, today, df_levels>>

call_vars == <<args, result>>

request_vars == <<request, json_data, pc, document>>

module_vars == <<required_schema, held>>

(***************************************************************************)
(* Characters and the str methods the code uses                            *)
(***************************************************************************)

\* str.lower() on the characters of the model's alphabet
LowerTable ==
    [A |-> "a", B |-> "b", C |-> "c", D |-> "d", E |-> "e", F |-> "f", G |-> "g",
     H |-> "h", I |-> "i", J |-> "j", K |-> "k", L |-> "l", M |-> "m", N |-> "n",
     O |-> "o", P |-> "p", Q |-> "q", R |-> "r", S |-> "s", T |-> "t", U |-> "u",
     V |-> "v", W |-> "w", X |-> "x", Y |-> "y", Z |-> "z"] @@ ("Ç" :> "ç")

\* str.upper() on the characters of the model's alphabet
UpperTable ==
    [a |-> "A", b |-> "B", c |-> "C", d |-> "D", e |-> "E", f |-> "F", g |-> "G",
     h |-> "H", i |-> "I", j |-> "J", k |-> "K", l |-> "L", m |-> "M", n |-> "N",
     o |-> "O", p |-> "P", q |-> "Q", r |-> "R", s |-> "S", t |-> "T", u |-> "U",
     v |-> "V", w |-> "W", x |-> "X", y |-> "Y", z |-> "Z"] @@ ("ç" :> "Ç")

lower_char(c) == IF c \in DOMAIN LowerTable THEN LowerTable[c] ELSE c

upper_char(c) == IF c \in DOMAIN UpperTable THEN UpperTable[c] ELSE c

lower(s) == [i \in 1..Len(s) |-> lower_char(s[i])]

upper(s) == [i \in 1..Len(s) |-> upper_char(s[i])]

\* characters removed by str.strip() and matched by \s
Whitespace == {" ", "\t"}

\* characters matched by \d and accepted by int()
DecimalDigits == {"0", "1", "2", "3", "4", "5", "6", "7", "8", "9"}

\* characters for which str.isdigit() is true but which int() and \d reject
\* (Unicode category No, e.g. SUPERSCRIPT TWO)
SuperscriptDigits == {"²"}

\* the character class [a-zçãéíôúàõ] of the month-name pattern
MonthLetters == {"a", "b", "c", "d", "e", "f", "g", "h", "i", "j", "k", "l", "m",
                 "n", "o", "p", "q", "r", "s", "t", "u", "v", "w", "x", "y", "z",
                 "ç", "ã", "é", "í", "ô", "ú", "à", "õ"}

DigitValue == [c \in DecimalDigits |->
                 CASE c = "0" -> 0 [] c = "1" -> 1 [] c = "2" -> 2 [] c = "3" -> 3
                   [] c = "4" -> 4 [] c = "5" -> 5 [] c = "6" -> 6 [] c = "7" -> 7
                   [] c = "8" -> 8 [] c = "9" -> 9]

DigitChar == <<"0", "1", "2", "3", "4", "5", "6", "7", "8", "9">>

\* number of leading characters of s, after position from, that lie in class
RECURSIVE run_length(_, _, _)
run_length(s, from, class) ==
    IF from < Len(s) /\ s[from + 1] \in class
    THEN 1 + run_length(s, from + 1, class)
    ELSE 0

\* number of trailing whitespace characters of s
RECURSIVE trailing_ws(_)
trailing_ws(s) ==
    IF Len(s) > 0 /\ s[Len(s)] \in Whitespace
    THEN 1 + trailing_ws(SubSeq(s, 1, Len(s) - 1))
    ELSE 0

\* str.strip()
strip(s) ==
    LET l == run_length(s, 0, Whitespace)
    IN  IF l = Len(s) THEN <<>>
        ELSE SubSeq(s, l + 1, Len(s) - trailing_ws(s))

\* str.isdigit()
isdigit(s) ==
    /\ Len(s) > 0
    /\ \A i \in 1..Len(s) : s[i] \in DecimalDigits \cup SuperscriptDigits

\* int(s) raises ValueError
int_raises(s) == \E i \in 1..Len(s) : s[i] \notin DecimalDigits

\* int(s) for a string of decimal digits
RECURSIVE int(_)
int(s) ==
    IF Len(s) = 0 THEN 0
    ELSE 10 * int(SubSeq(s, 1, Len(s) - 1)) + DigitValue[s[Len(s)]]

\* "needle in haystack" for two strings
contains(haystack, needle) ==
    \E i \in 0..(Len(haystack) - Len(needle)) :
        SubSeq(haystack, i + 1, i + Len(needle)) = needle

(***************************************************************************)
(* JSON-like values                                                        *)
(***************************************************************************)

Str(s) == [t |-> "str", v |-> s]

Num(s) == [t |-> "num", v |-> s]

Null == [t |-> "null", v |-> <<>>]

\* isinstance(x, str)
is_str(x) == x.t = "str"

\* an exception leaving the function
Raised(name) == [t |-> "raise", v |-> <<name>>]

has_raised(x) == x.t = "raise"

(***************************************************************************)
(* Date normalizer                                                         *)
(***************************************************************************)

MONTHS_EN ==
       <<"j","a","n","u","a","r","y">> :> <<"0","1">>
    @@ <<"f","e","b","r","u","a","r","y">> :> <<"0","2">>
    @@ <<"m","a","r","c","h">> :> <<"0","3">>
    @@ <<"a","p","r","i","l">> :> <<"0","4">>
    @@ <<"m","a","y">> :> <<"0","5">>
    @@ <<"j","u","n","e">> :> <<"0","6">>
    @@ <<"j","u","l","y">> :> <<"0","7">>
    @@ <<"a","u","g","u","s","t">> :> <<"0","8">>
    @@ <<"s","e","p","t","e","m","b","e","r">> :> <<"0","9">>
    @@ <<"o","c","t","o","b","e","r">> :> <<"1","0">>
    @@ <<"n","o","v","e","m","b","e","r">> :> <<"1","1">>
    @@ <<"d","e","c","e","m","b","e","r">> :> <<"1","2">>
    @@ <<"j","a","n">> :> <<"0","1">>
    @@ <<"f","e","b">> :> <<"0","2">>
    @@ <<"m","a","r">> :> <<"0","3">>
    @@ <<"a","p","r">> :> <<"0","4">>
    @@ <<"j","u","n">> :> <<"0","6">>
    @@ <<"j","u","l">> :> <<"0","7">>
    @@ <<"a","u","g">> :> <<"0","8">>
    @@ <<"s","e","p">> :> <<"0","9">>
    @@ <<"o","c","t">> :> <<"1","0">>
    @@ <<"n","o","v">> :> <<"1","1">>
    @@ <<"d","e","c">> :> <<"1","2">>

MONTHS_PT ==
       <<"j","a","n","e","i","r","o">> :> <<"0","1">>
    @@ <<"f","e","v","e","r","e","i","r","o">> :> <<"0","2">>
    @@ <<"m","a","r","ç","o">> :> <<"0","3">>
    @@ <<"m","a","r","c","o">> :> <<"0","3">>
    @@ <<"a","b","r","i","l">> :> <<"0","4">>
    @@ <<"m","a","i","o">> :> <<"0","5">>
    @@ <<"j","u","n","h","o">> :> <<"0","6">>
    @@ <<"j","u","l","h","o">> :> <<"0","7">>
    @@ <<"a","g","o","s","t","o">> :> <<"0","8">>
    @@ <<"s","e","t","e","m","b","r","o">> :> <<"0","9">>
    @@ <<"o","u","t","u","b","r","o">> :> <<"1","0">>
    @@ <<"n","o","v","e","m","b","r","o">> :> <<"1","1">>
    @@ <<"d","e","z","e","m","b","r","o">> :> <<"1","2">>
    @@ <<"j","a","n">> :> <<"0","1">>
    @@ <<"f","e","v">> :> <<"0","2">>
    @@ <<"m","a","r">> :> <<"0","3">>
    @@ <<"a","b","r">> :> <<"0","4">>
    @@ <<"m","a","i">> :> <<"0","5">>
    @@ <<"j","u","n">> :> <<"0","6">>
    @@ <<"j","u","l">> :> <<"0","7">>
    @@ <<"a","g","o">> :> <<"0","8">>
    @@ <<"s","e","t">> :> <<"0","9">>
    @@ <<"o","u","t">> :> <<"1","0">>
    @@ <<"n","o","v">> :> <<"1","1">>
    @@ <<"d","e","z">> :> <<"1","2">>

PT == <<"P","T">>

EN == <<"E","N">>

\* report_lang.upper() == "PT"
is_pt(report_lang) == upper(report_lang) = PT

\* absent dictionary entry, failed parse (Python None)
None == <<>>

\* the part of valid_mm_yyyy before the digit tests
mm_yyyy_shape(x) == is_str(x) /\ Len(x.v) = 7 /\ x.v[3] = "/"

\* valid_mm_yyyy ends in ValueError: int(mm) is reached with a non-decimal digit
valid_mm_yyyy_raises(x) ==
    /\ mm_yyyy_shape(x)
    /\ isdigit(SubSeq(x.v, 1, 2))
    /\ isdigit(SubSeq(x.v, 4, 7))
    /\ int_raises(SubSeq(x.v, 1, 2))

valid_mm_yyyy(x) ==
    /\ mm_yyyy_shape(x)
    /\ isdigit(SubSeq(x.v, 1, 2))
    /\ isdigit(SubSeq(x.v, 4, 7))
    /\ ~int_raises(SubSeq(x.v, 1, 2))
    /\ 1 <= int(SubSeq(x.v, 1, 2))
    /\ int(SubSeq(x.v, 1, 2)) <= 12

\* re.match(r"([a-zçãéíôúàõ]+)\s+(\d{4})", s): both runs are greedy and
\* cannot give characters back, the match is anchored at the start only
month_year_match(s) ==
    LET n == run_length(s, 0, MonthLetters)
        w == run_length(s, n, Whitespace)
    IN  /\ n >= 1
        /\ w >= 1
        /\ Len(s) >= n + w + 4
        /\ \A i \in (n + w + 1)..(n + w + 4) : s[i] \in DecimalDigits

\* match.groups() of month_year_match
month_year_groups(s) ==
    LET n == run_length(s, 0, MonthLetters)
        w == run_length(s, n, Whitespace)
    IN  [month_name |-> SubSeq(s, 1, n), year |-> SubSeq(s, n + w + 1, n + w + 4)]

\* month_num looking the name up in MONTHS_EN whatever the language code
month_num_english_only(month_name, report_lang) ==
    IF month_name \in DOMAIN MONTHS_EN THEN MONTHS_EN[month_name] ELSE None

\* MONTHS_PT.get(month_name) / MONTHS_EN.get(month_name)
month_num(month_name, report_lang) ==
    IF is_pt(report_lang)
    THEN IF month_name \in DOMAIN MONTHS_PT THEN MONTHS_PT[month_name] ELSE None
    ELSE IF month_name \in DOMAIN MONTHS_EN THEN MONTHS_EN[month_name] ELSE None

\* re.match(r"(\d{4})", s): anchored at the start only
year_match(s) ==
    /\ Len(s) >= 4
    /\ \A i \in 1..4 : s[i] \in DecimalDigits

normalize_to_mm_yyyy(raw, report_lang) ==
    IF ~is_str(raw) THEN raw
    ELSE LET s == lower(strip(raw.v))
         IN  IF valid_mm_yyyy_raises(Str(s)) THEN Raised("ValueError")
             ELSE IF valid_mm_yyyy(Str(s)) THEN Str(s)
             ELSE IF /\ month_year_match(s)
                     /\ month_num(month_year_groups(s).month_name, report_lang) # None
                  THEN Str(month_num(month_year_groups(s).month_name, report_lang)
                           \o <<"/">> \o month_year_groups(s).year)
             ELSE IF year_match(s) THEN Str(<<"0", "1", "/">> \o SubSeq(s, 1, 4))
             ELSE raw

\* a datetime of the first day of a month, as months since year 0
DateTime(year, month) == 12 * year + (month - 1)

dt_year(dt) == dt \div 12

dt_month(dt) == (dt % 12) + 1

\* failed strptime
NoDate == -1

\* datetime.strptime(x, "%m/%Y") inside try/except: the month is 1[0-2], 0[1-9]
\* or [1-9], the year is four \d and must be at least 1
parse_mm_yyyy(x) ==
    IF ~is_str(x) THEN NoDate
    ELSE LET s  == x.v
             ml == IF Len(s) = 7 THEN 2 ELSE 1
             mm == SubSeq(s, 1, ml)
             yy == SubSeq(s, ml + 2, Len(s))
         IN  IF /\ Len(s) \in {6, 7}
                /\ s[ml + 1] = "/"
                /\ \A i \in 1..Len(s) : i # ml + 1 => s[i] \in DecimalDigits
                /\ int(mm) >= 1
                /\ int(mm) <= 12
                /\ (ml = 1 => mm # <<"0">>)
                /\ int(yy) >= 1
             THEN DateTime(int(yy), int(mm))
             ELSE NoDate

\* decimal digits of n, most significant first, without padding
RECURSIVE digits(_)
digits(n) ==
    IF n < 10 THEN <<DigitChar[n + 1]>>
    ELSE Append(digits(n \div 10), DigitChar[(n % 10) + 1])

\* s padded on the left with "0" to the given width
RECURSIVE zfill(_, _)
zfill(s, width) == IF Len(s) >= width THEN s ELSE zfill(<<"0">> \o s, width)

\* dt.strftime("%m/%Y"): %m is two digits; %Y is four digits where the C
\* library pads it and the bare number where it does not (glibc)
strftime(dt, pads) ==
    zfill(digits(dt_month(dt)), 2) \o <<"/">> \o
    (IF pads THEN zfill(digits(dt_year(dt)), 4) ELSE digits(dt_year(dt)))

PRESENT_TERMS_EN ==
    << <<"p","r","e","s","e","n","t">>,
       <<"c","u","r","r","e","n","t">>,
       <<"c","u","r","r","e","n","t","l","y">>,
       <<"a","c","t","u","a","l">>,
       <<"n","o","w","a","d","a","y","s">>,
       <<"t","h","i","s"," ","m","o","m","e","n","t">>,
       <<"t","o","d","a","y">> >>

PRESENT_TERMS_PT ==
    << <<"p","r","e","s","e","n","t","e">>,
       <<"a","t","u","a","l">>,
       <<"a","t","u","a","l","m","e","n","t","e">>,
       <<"n","o"," ","p","r","e","s","e","n","t","e">>,
       <<"n","e","s","t","e"," ","m","o","m","e","n","t","o">>,
       <<"d","a","t","a"," ","a","t","u","a","l">>,
       <<"p","r","e","s","e","n","t","e"," ","m","o","m","e","n","t","o">>,
       <<"a","g","o","r","a">> >>

\* is_present_term without the containment test: whole-string equality only
is_present_term_equal_only(end_str, report_lang) ==
    IF ~is_str(end_str) THEN FALSE
    ELSE LET term  == lower(strip(end_str.v))
             terms == IF is_pt(report_lang) THEN PRESENT_TERMS_PT ELSE PRESENT_TERMS_EN
         IN  \E i \in 1..Len(terms) : term = terms[i]

is_present_term(end_str, report_lang) ==
    IF ~is_str(end_str) THEN FALSE
    ELSE LET term  == lower(strip(end_str.v))
             terms == IF is_pt(report_lang) THEN PRESENT_TERMS_PT ELSE PRESENT_TERMS_EN
         IN  \E i \in 1..Len(terms) : term = terms[i] \/ contains(term, terms[i])

(***************************************************************************)
(* Inputs of the date normalizer                                           *)
(***************************************************************************)

\* str.capitalize()
capitalize(s) ==
    [i \in 1..Len(s) |-> IF i = 1 THEN upper_char(s[i]) ELSE lower_char(s[i])]

YearStrings == {<<"2","0","2","4">>, <<"2","0","2","1">>, <<"1","9","9","9">>}

LangCodes == {PT, EN, <<"p","t">>, <<"e","n">>, <<>>}

MonthNames == DOMAIN MONTHS_PT \cup DOMAIN MONTHS_EN

LetterCases(s) == {s, upper(s), capitalize(s)}

MonthDigits == {"1", "2", "3", "4", "5", "6", "7", "8", "9"}

\* "M/YYYY"
SingleDigitMonthDates ==
    {Str(<<m, "/">> \o y) : m \in MonthDigits, y \in YearStrings}

\* "MM/YYYY" with MM in 01..12
CanonicalDates ==
    {Str(zfill(digits(m), 2) \o <<"/">> \o y) : m \in 1..12, y \in YearStrings}

\* "<MonthName> <YYYY>" in lower case, upper case and capitalized
MonthNameDates ==
    UNION {{Str(c \o <<" ">> \o y) : c \in LetterCases(name), y \in YearStrings} :
           name \in MonthNames}

OtherDates ==
    {Str(y) : y \in YearStrings} \cup
    {Str(<<"2","0","2","0","-","0","5">>),
     Str(<<"2","0","2","0","5">>),
     Str(<<"2","0","2","0"," ","-"," ","p","r","e","s","e","n","t">>),
     Str(<<"a","b","c">>),
     Str(<<>>),
     Str(<<" ","2","0","2","1"," ">>),
     Str(<<" ","0","6","/","2","0","2","4"," ">>),
     Str(<<"a","b","r","i","l"," ","2","0","2","1"," ","a"," ","m","a","i","o"," ","2","0","2","2">>),
     Str(<<"1","3","/","2","0","2","4">>),
     Str(<<"0","0","/","0","0","0","0">>),
     Str(<<"0","6","-","2","0","2","4">>),
     Str(<<"0","6","/","2","4">>),
     Str(<<"p","r","e","s","e","n","t">>),
     Str(<<"a","t","u","a","l","m","e","n","t","e">>),
     Str(<<"x","y","z"," ","2","0","2","1">>),
     Str(<<"A","p","r","i","l"," "," ","2","0","2","1">>),
     Str(<<"1","/","1","/","2","0","2","4">>),
     Num(<<"2","0","2","1">>), Null}

RawDates == SingleDigitMonthDates \cup CanonicalDates \cup MonthNameDates \cup OtherDates

Pending == [t |-> "pending", v |-> <<>>]

Idle == [t |-> "idle", v |-> <<>>]

\* a calendar day
Day(day, month, year) == [day |-> day, month |-> month, year |-> year]

\* no front-end request is being served
NoRequest == request = Idle /\ json_data = Idle /\ pc = "idle" /\ document = Idle


(***************************************************************************)
(* REQUIRED_SCHEMA as the module defines it                                *)
(***************************************************************************)

\* a JSON array and a JSON object; the keys of an object are the fields of
\* the record v
List(items) == [t |-> "list", v |-> items]

Dict(fields) == [t |-> "dict", v |-> fields]

Empty == Str(<<>>)

TASK_TEMPLATE == Dict([task |-> Empty])

JOB_POST_TEMPLATE ==
    Dict([job_title |-> Empty, start_date |-> Empty, end_date |-> Empty,
          job_tasks |-> List(<<TASK_TEMPLATE>>)])

LINE_ITEM_TEMPLATE ==
    Dict([cdd_company |-> Empty, company_desc |-> Empty,
          job_posts |-> List(<<JOB_POST_TEMPLATE>>)])

ACADEMIC_TEMPLATE ==
    Dict([academic_course |-> Empty, academic_institution |-> Empty,
          academic_conclusion |-> Empty])

LANGUAGE_TEMPLATE ==
    Dict([language |-> Empty, language_level |-> Empty, level_description |-> Empty])

REQUIRED_SCHEMA ==
    Dict([company |-> Empty, company_title |-> Empty, cdd_name |-> Empty,
          cdd_email |-> Empty, cdd_city |-> Empty, cdd_state |-> Empty,
          cdd_ddi |-> Empty, cdd_ddd |-> Empty, cdd_cel |-> Empty,
          cdd_age |-> Empty, cdd_nationality |-> Empty, cdd_personal |-> Empty,
          abt_background |-> Empty, bhv_profile |-> Empty, job_bond |-> Empty,
          job_wage |-> Empty, job_variable |-> Empty, job_meal |-> Empty,
          job_food |-> Empty, job_health |-> Empty, job_dental |-> Empty,
          job_life |-> Empty, job_pension |-> Empty, job_others |-> Empty,
          job_expectation |-> Empty, last_company |-> Empty, report_lang |-> Empty,
          report_date |-> Empty,
          line_items |-> List(<<LINE_ITEM_TEMPLATE>>),
          academics |-> List(<<ACADEMIC_TEMPLATE>>),
          languages |-> List(<<LANGUAGE_TEMPLATE>>)])

\* the module as it is after import: the schema as written, and no record
\* that refers to its objects
FreshModule == required_schema = REQUIRED_SCHEMA /\ held = {}
(***************************************************************************)
(* The date normalizer applied to one raw date                             *)
(***************************************************************************)

InitNormalize ==
    /\ date_str \in RawDates
    /\ lang_code \in LangCodes
    /\ norm_result = Pending
    /\ json_in = Idle
    /\ enforced = Idle
    /\ data = Idle
    /\ context = Idle
    /\ pads_year = FALSE
    /\ df_levels = <<>>
    /\ NoRequest
    /\ today = Day(5, 11, 2026)
    /\ FreshModule
    /\ args = Idle
    /\ result = Idle

\* norm = normalize_to_mm_yyyy(raw, report_lang)
Normalize ==
    /\ norm_result = Pending
    /\ norm_result' = normalize_to_mm_yyyy(date_str, lang_code)
    /\ UNCHANGED <<date_str, lang_code, enforce_vars, context_vars, call_vars,
                   request_vars, module_vars>>

NextNormalize == Normalize

SpecNormalize == InitNormalize /\ [][NextNormalize]_vars

(***************************************************************************)
(* Properties of the date normalizer                                       *)
(***************************************************************************)

\* "MM/YYYY": month 01..12, four decimal digits of year
CanonicalMMYYYY(s) ==
    /\ Len(s) = 7
    /\ \E m \in 1..12 : SubSeq(s, 1, 3) = zfill(digits(m), 2) \o <<"/">>
    /\ \A i \in 4..7 : s[i] \in DecimalDigits

\* the month number of a month name of either table
MonthNumberOf(name) ==
    IF name \in DOMAIN MONTHS_PT THEN MONTHS_PT[name] ELSE MONTHS_EN[name]

\* the month table the language code selects
MonthTable(code) == IF code = PT THEN MONTHS_PT ELSE MONTHS_EN

\* C8: for every month digit M in 1..9, four-digit year and language code,
\* normalize_to_mm_yyyy("M/YYYY", lang) is "0M/YYYY".
C8_SingleDigitMonthPadded ==
    (norm_result # Pending /\ date_str \in SingleDigitMonthDates)
        => norm_result = Str(<<"0">> \o date_str.v)

MonthNameYear(s, code) ==
    \E name \in DOMAIN (IF is_pt(code) THEN MONTHS_PT ELSE MONTHS_EN) :
        /\ Len(s) > Len(name) + 4
        /\ SubSeq(s, 1, Len(name)) = name
        /\ \A i \in (Len(name) + 1)..(Len(s) - 4) : s[i] \in Whitespace
        /\ \A i \in (Len(s) - 3)..Len(s) : s[i] \in DecimalDigits

\* "YYYY" and nothing else
BareYear(s) == Len(s) = 4 /\ \A i \in 1..4 : s[i] \in DecimalDigits

\* C10: normalize_to_mm_yyyy changes only three shapes of input (canonical
\* MM/YYYY is kept, "<MonthName> <YYYY>" becomes MM/YYYY, a bare four-digit
\* year becomes 01/YYYY); every other input is returned unchanged.
C10_OnlyThreeShapesChange ==
    norm_result # Pending =>
        IF ~is_str(date_str) THEN norm_result = date_str
        ELSE LET s == lower(strip(date_str.v))
             IN  IF CanonicalMMYYYY(s) THEN norm_result = Str(s)
                 ELSE IF MonthNameYear(s, lang_code)
                      THEN norm_result =
                               Str(month_num(month_year_groups(s).month_name, lang_code)
                                   \o <<"/">> \o SubSeq(s, Len(s) - 3, Len(s)))
                 ELSE IF BareYear(s) THEN norm_result = Str(<<"0", "1", "/">> \o s)
                 ELSE norm_result = date_str


(***************************************************************************)
(* Language levels                                                         *)
(***************************************************************************)

\* min() and max() of a non-empty set of datetimes or of positions
min(S) == CHOOSE x \in S : \A y \in S : x <= y

max(S) == CHOOSE x \in S : \A y \in S : x >= y

CANONICAL_LANGUAGE_LEVELS ==
    << [en |-> <<"E","l","e","m","e","n","t","a","r","y">>,
        pt |-> <<"E","l","e","m","e","n","t","a","r">>,
        matches |-> << <<"e","l","e","m","e","n","t","a","r","y">>, <<"e","l","e","m","e","n",
                "t","a","r">>, <<"b","a","s","i","c">>, <<"b","á","s","i","c","o">> >>],
       [en |-> <<"P","r","e","-","o","p","e","r","a","t","i","o","n","a","l">>,
        pt |-> <<"P","r","e","-","o","p","e","r","a","c","i","o","n","a","l">>,
        matches |-> << <<"p","r","e","-","o","p","e","r","a","t","i","o","n","a","l">>, <<"p",
                "r","e"," ","o","p","e","r","a","c","i","o","n","a","l">>, <<"p","r","e","o",
                "p","e","r","a","t","i","o","n","a","l">>,
                       <<"p","r","e","-","o","p","e","r","a","c","i","o","n","a","l">>, <<"b",
                               "á","s","i","c","o"," ","c","o","m"," ","i","n","t","e","r","m",
                               "e","d","i","á","r","i","o">>,
                       <<"b","a","s","i","c"," ","w","i","t","h"," ","i","n","t","e","r","m",
                               "e","d","i","a","r","y">> >>],
       [en |-> <<"O","p","e","r","a","t","i","o","n","a","l">>,
        pt |-> <<"O","p","e","r","a","c","i","o","n","a","l">>,
        matches |-> << <<"o","p","e","r","a","t","i","o","n","a","l">>, <<"o","p","e","r","a",
                "c","i","o","n","a","l">>, <<"i","n","t","e","r","m","e","d","i","a","r","y">>,
                       <<"i","n","t","e","r","m","e","d","i","á","r","i","o">>, <<"i","n","t",
                               "e","r","m","e","d","i","a","r","i","a">> >>],
       [en |-> <<"E","x","t","e","n","d","e","d">>,
        pt |-> <<"I","n","t","e","r","m","e","d","i","á","r","i","o">>,
        matches |-> << <<"e","x","t","e","n","d","e","d">>, <<"i","n","t","e","r","m","e","d",
                "i","á","r","i","o"," ","a","v","a","n","ç","a","d","o">>, <<"i","n","t","e",
                "r","m","e","d","i","a","r","y"," ","a","d","v","a","n","c","e","d">>,
                       <<"a","d","v","a","n","c","e","d"," ","i","n","t","e","r","m","e","d",
                               "i","a","r","y">>,
                       <<"i","n","t","e","r","m","e","d","i","á","r","i","o"," ","c","o","m",
                               " ","h","a","b","i","l","i","d","a","d","e"," ","a","v","a","n",
                               "ç","a","d","a">>,
                       <<"i","n","t","e","r","m","e","d","i","a","r","y"," ","w","i","t","h",
                               " ","a","d","v","a","n","c","e","d"," ","s","k","i","l","l">>,
                               <<"e","x","t","e","n","d","e","d"," ","k","n","o","w","l","e",
                               "d","g","e">> >>],
       [en |-> <<"E","x","p","e","r","t">>,
        pt |-> <<"A","v","a","n","ç","a","d","o"," ","/"," ","F","l","u","e","n","t","e">>,
        matches |-> << <<"e","x","p","e","r","t">>, <<"a","d","v","a","n","c","e","d">>, <<"a",
                "v","a","n","ç","a","d","o">>, <<"f","l","u","e","n","t","e">>, <<"f","l","u",
                "e","n","t">>,
                       <<"n","a","t","i","v","e">> >>] >>

\* "pt" if report_lang.upper() == "PT" else "en"
lang_key(report_lang) == IF is_pt(report_lang) THEN "pt" ELSE "en"

\* lvl[lang_key]
label(lvl, key) == IF key = "pt" THEN lvl.pt ELSE lvl.en

\* lines 369-373: the two tests made on one level, the exact one and then the
\* patterns; both return the level's label
level_hit(raw_level, lvl, key) ==
    \/ raw_level = lower(label(lvl, key))
    \/ \E i \in 1..Len(lvl.matches) : contains(raw_level, lvl.matches[i])

\* canonicalize_language_level returning the label of the last level on which
\* one of the two tests succeeds
canonicalize_language_level_last_hit(raw_level, report_lang) ==
    IF ~is_str(raw_level) THEN <<>>
    ELSE LET raw  == lower(strip(raw_level.v))
             key  == lang_key(report_lang)
             hits == {k \in 1..Len(CANONICAL_LANGUAGE_LEVELS) :
                        level_hit(raw, CANONICAL_LANGUAGE_LEVELS[k], key)}
         IN  IF hits = {} THEN <<>>
             ELSE label(CANONICAL_LANGUAGE_LEVELS[max(hits)], key)

\* lines 363-374: the label of the first level, in declaration order, on which
\* one of the two tests succeeds, or ""
canonicalize_language_level(raw_level, report_lang) ==
    IF ~is_str(raw_level) THEN <<>>
    ELSE LET raw  == lower(strip(raw_level.v))
             key  == lang_key(report_lang)
             hits == {k \in 1..Len(CANONICAL_LANGUAGE_LEVELS) :
                        level_hit(raw, CANONICAL_LANGUAGE_LEVELS[k], key)}
         IN  IF hits = {} THEN <<>>
             ELSE label(CANONICAL_LANGUAGE_LEVELS[min(hits)], key)

\* the reference table of language levels read from the sheet at import time:
\* one row per level, with the titles and descriptions of both languages
LevelRow(title_pt, title_en, description_pt, description_en) ==
    [language_level_title_pt |-> title_pt, language_level_title_en |-> title_en,
     level_description_pt |-> description_pt, level_description_en |-> description_en]

\* lines 319-333: the rows of df_levels with a PT title, under the stripped,
\* lower-cased title, in the order of the sheet (the titles of a sheet of the
\* model are distinct)
PT_LEVELS ==
    SelectSeq([i \in 1..Len(df_levels) |->
                  [key |-> lower(strip(df_levels[i].language_level_title_pt)),
                   language_level |-> df_levels[i].language_level_title_pt,
                   level_description |-> df_levels[i].level_description_pt]],
              LAMBDA row : row.key # <<>>)

\* the same for the EN titles
EN_LEVELS ==
    SelectSeq([i \in 1..Len(df_levels) |->
                  [key |-> lower(strip(df_levels[i].language_level_title_en)),
                   language_level |-> df_levels[i].language_level_title_en,
                   level_description |-> df_levels[i].level_description_en]],
              LAMBDA row : row.key # <<>>)

\* "not x" for a JSON value
falsy(x) ==
    \/ x.t = "null"
    \/ x.t = "str" /\ x.v = <<>>
    \/ x.t = "num" /\ int(x.v) = 0
    \/ x.t = "list" /\ x.v = <<>>
    \/ x.t = "dict" /\ DOMAIN x.v = {}

\* str(x) for a string or a number
str(x) == x.v

\* no row of the reference table
NoEntry == [key |-> <<>>, language_level |-> <<>>, level_description |-> <<>>, found |-> FALSE]

\* lines 376-392: the row whose key is the level, else the first row whose key
\* contains the level or is contained in it, else None
find_level_entry(level_value, report_lang) ==
    IF falsy(level_value) THEN NoEntry
    ELSE LET key   == lower(strip(str(level_value)))
             table == IF is_pt(report_lang) THEN PT_LEVELS ELSE EN_LEVELS
             exact == {i \in 1..Len(table) : table[i].key = key}
             fuzzy == {i \in 1..Len(table) :
                          contains(table[i].key, key) \/ contains(key, table[i].key)}
             found(i) == [key |-> table[i].key,
                          language_level |-> table[i].language_level,
                          level_description |-> table[i].level_description,
                          found |-> TRUE]
         IN  IF exact # {} THEN found(min(exact))
             ELSE IF fuzzy # {} THEN found(min(fuzzy))
             ELSE NoEntry

\* the words that smart_title leaves in lower case
lowercase_exceptions ==
    {<<"d","e">>, <<"d","a">>, <<"d","o">>, <<"d","a","s">>, <<"d","o","s">>, <<"p","a","r",
            "a">>, <<"c","o","m">>, <<"e">>, <<"a">>, <<"o">>, <<"a","s">>, <<"o","s">>, <<"e",
            "m">>,
     <<"n","o">>, <<"n","a">>, <<"n","o","s">>, <<"n","a","s">>, <<"o","f">>, <<"a","n","d">>,
             <<"i","n">>, <<"o","n">>, <<"t","o">>, <<"f","r","o","m">>, <<"w","i","t","h">>,
             <<"b","y">>,
     <<"f","o","r">>, <<"a","t">>}

\* str.split(): the maximal runs of non-whitespace characters
RECURSIVE split(_)
split(s) ==
    LET blank == run_length(s, 0, Whitespace)
        word  == run_length(s, blank, {c \in {s[i] : i \in 1..Len(s)} : c \notin Whitespace})
    IN  IF blank = Len(s) THEN <<>>
        ELSE <<SubSeq(s, blank + 1, blank + word)>> \o
             split(SubSeq(s, blank + word + 1, Len(s)))

\* " ".join(words)
RECURSIVE join(_)
join(words) ==
    IF Len(words) = 0 THEN <<>>
    ELSE IF Len(words) = 1 THEN words[1]
    ELSE words[1] \o <<" ">> \o join(Tail(words))

\* lines 240-248
smart_title(text) ==
    IF ~is_str(text) THEN text
    ELSE LET words == split(lower(text.v))
         IN  Str(join([i \in 1..Len(words) |->
                          IF words[i] \in lowercase_exceptions THEN words[i]
                          ELSE capitalize(words[i])]))

\* lines 280-287
month_pt ==
    << <<"j","a","n","e","i","r","o">>, <<"f","e","v","e","r","e","i","r","o">>, <<"m","a","r",
            "ç","o">>, <<"a","b","r","i","l">>, <<"m","a","i","o">>, <<"j","u","n","h","o">>,
            <<"j","u","l","h","o">>, <<"a","g","o","s","t","o">>,
       <<"s","e","t","e","m","b","r","o">>, <<"o","u","t","u","b","r","o">>, <<"n","o","v","e",
               "m","b","r","o">>, <<"d","e","z","e","m","b","r","o">> >>

month_en ==
    << <<"J","a","n","u","a","r","y">>, <<"F","e","b","r","u","a","r","y">>, <<"M","a","r","c",
            "h">>, <<"A","p","r","i","l">>, <<"M","a","y">>, <<"J","u","n","e">>, <<"J","u","l",
            "y">>, <<"A","u","g","u","s","t">>,
       <<"S","e","p","t","e","m","b","e","r">>, <<"O","c","t","o","b","e","r">>, <<"N","o","v",
               "e","m","b","e","r">>, <<"D","e","c","e","m","b","e","r">> >>

\* lines 290-291
ordinal(n) ==
    digits(n) \o
    (IF 11 <= n % 100 /\ n % 100 <= 13 THEN <<"t","h">>
     ELSE << <<"t","h">>, <<"s","t">>, <<"n","d">>, <<"r","d">>, <<"t","h">>, <<"t","h">>,
             <<"t","h">>, <<"t","h">>, <<"t","h">>, <<"t","h">> >>[(n % 10) + 1])

\* lines 276-296
format_report_date(code) ==
    IF code = PT
    THEN digits(today.day) \o <<" ","d","e"," ">> \o month_pt[today.month] \o <<" ","d","e",
            " ">>
             \o digits(today.year)
    ELSE month_en[today.month] \o <<" ">> \o ordinal(today.day) \o <<","," ">>
             \o digits(today.year)

\* dict.get(key, default)
get(d, key, default) == IF key \in DOMAIN d THEN d[key] ELSE default

\* lines 661-671 (and 559-570): one iteration of the loop over the languages
language_entry(lang, lang_report_lang) ==
    LET canonical_level ==
            canonicalize_language_level(get(lang, "language_level", Str(<<>>)),
                                        lang_report_lang)
        level == IF canonical_level # <<>> THEN Str(canonical_level)
                 ELSE get(lang, "language_level", Null)
        level_entry == find_level_entry(level, lang_report_lang)
        kept == IF canonical_level # <<>> \/ level_entry.found
                THEN {"language_level"} ELSE {}
    IN  [key \in DOMAIN lang \cup kept \cup {"level_description", "language"} |->
            CASE key = "language_level" ->
                     IF level_entry.found THEN Str(level_entry.language_level) ELSE level
              [] key = "level_description" ->
                     IF level_entry.found THEN Str(level_entry.level_description)
                     ELSE Str(<<>>)
              [] key = "language" -> smart_title(get(lang, "language", Str(<<>>)))
              [] OTHER -> lang[key]]

(***************************************************************************)
(* build_context: per-job normalization, per-employer aggregation and the  *)
(* most recent employer                                                    *)
(***************************************************************************)

SENTINEL == <<"0","0","/","0","0","0","0">>

PRESENT == <<"P","R","E","S","E","N","T">>

\* text.upper() if isinstance(text, str) else text
format_caps(text) == IF is_str(text) THEN Str(upper(text.v)) ELSE text

\* text as far as its last space, all of it when it has none
RECURSIVE before_last_space(_, _)
before_last_space(text, i) ==
    IF i = 0 THEN text
    ELSE IF text[i] = " " THEN SubSeq(text, 1, i - 1)
    ELSE before_last_space(text, i - 1)

\* lines 268-274
trim_text(text, max_chars) ==
    IF ~is_str(text) THEN Str(<<>>)
    ELSE IF Len(text.v) <= max_chars THEN text
    ELSE Str(before_last_space(SubSeq(text.v, 1, max_chars), max_chars) \o <<".", ".", ".">>)

\* lines 253-254
format_first(text) == IF is_str(text) THEN Str(capitalize(text.v)) ELSE text

\* lines 605-610: start_val and start_dt for the normalized start, or the
\* exception
start_of(norm_start) ==
    IF has_raised(norm_start) \/ valid_mm_yyyy_raises(norm_start)
    THEN [raised |-> TRUE, val |-> SENTINEL, dt |-> NoDate]
    ELSE IF valid_mm_yyyy(norm_start)
    THEN [raised |-> FALSE, val |-> norm_start.v, dt |-> parse_mm_yyyy(norm_start)]
    ELSE [raised |-> FALSE, val |-> SENTINEL, dt |-> NoDate]

\* lines 602-612: start_val and start_dt of one job, or the exception
job_start(job, report_lang) == start_of(normalize_to_mm_yyyy(job.start_date, report_lang))

\* lines 616-628: end_val, end_dt and the ongoing flag for the normalized
\* end, or the exception
end_of(norm_end, report_lang) ==
    IF has_raised(norm_end)
    THEN [raised |-> TRUE, val |-> SENTINEL, dt |-> NoDate, present |-> FALSE]
    ELSE IF is_present_term(norm_end, report_lang)
    THEN [raised |-> FALSE, val |-> PRESENT, dt |-> NoDate, present |-> TRUE]
    ELSE IF valid_mm_yyyy_raises(norm_end)
    THEN [raised |-> TRUE, val |-> SENTINEL, dt |-> NoDate, present |-> FALSE]
    ELSE IF valid_mm_yyyy(norm_end)
    THEN [raised |-> FALSE, val |-> norm_end.v, dt |-> parse_mm_yyyy(norm_end),
          present |-> FALSE]
    ELSE [raised |-> FALSE, val |-> SENTINEL, dt |-> NoDate, present |-> FALSE]

\* lines 614-633: end_val, end_dt and the ongoing flag of one job, or the exception
job_end(job, report_lang) ==
    end_of(normalize_to_mm_yyyy(job.end_date, report_lang), report_lang)

\* lines 639-654: the employer after its jobs; start and end are the results
\* of the jobs, starts and ends are the dates collected in start_dates (line
\* 612) and end_dates (lines 624, 633)
employer_of(item, start, end, pads) ==
    LET starts == {start[i].dt : i \in 1..Len(start)} \ {NoDate}
        ends   == {end[i].dt : i \in 1..Len(end)} \ {NoDate}
    IN  [raised |-> \E i \in 1..Len(start) : start[i].raised \/ end[i].raised,
         cdd_company |-> format_caps(item.cdd_company),
         company_desc |-> trim_text(format_first(get(item, "company_desc", Str(<<>>))), 89),
         job_posts |-> [i \in 1..Len(start) |->
                           [start_date |-> start[i].val, end_date |-> end[i].val]],
         company_start_date |->
             IF starts # {} THEN strftime(min(starts), pads) ELSE SENTINEL,
         company_end_date |->
             IF \E i \in 1..Len(end) : end[i].present THEN PRESENT
             ELSE IF ends # {} THEN strftime(max(ends), pads)
             ELSE SENTINEL,
         job_count |-> Len(start)]

\* lines 590-654: one iteration of the loop over line_items
build_item(item, report_lang, pads) ==
    employer_of(item,
                [i \in 1..Len(item.job_posts) |-> job_start(item.job_posts[i], report_lang)],
                [i \in 1..Len(item.job_posts) |-> job_end(item.job_posts[i], report_lang)],
                pads)

\* lines 673-679: the sort key of a company_end_date
end_cmp(end_str) ==
    IF end_str = PRESENT THEN <<2, NoDate>>
    ELSE IF valid_mm_yyyy(Str(end_str)) THEN <<1, parse_mm_yyyy(Str(end_str))>>
    ELSE <<0, NoDate>>

\* a >= b on the tuples of end_cmp
tuple_ge(a, b) == a[1] > b[1] \/ (a[1] = b[1] /\ a[2] >= b[2])

\* a > b on the tuples of end_cmp
tuple_gt(a, b) == a[1] > b[1] \/ (a[1] = b[1] /\ a[2] > b[2])

\* lines 681-685: the loop that chooses last_company; latest is the pair
\* (latest_date, last_company), is_none says that latest_date is still None
RECURSIVE latest_of(_, _, _)
latest_of(items, i, latest) ==
    IF i > Len(items) THEN latest
    ELSE IF latest.is_none
            \/ tuple_gt(end_cmp(items[i].company_end_date), end_cmp(latest.latest_date))
         THEN latest_of(items, i + 1,
                        [is_none |-> FALSE,
                         latest_date |-> items[i].company_end_date,
                         last_company |-> items[i].cdd_company])
         ELSE latest_of(items, i + 1, latest)

\* x + suffix: the string, or TypeError when x is not a string
plus(x, suffix) == IF is_str(x) THEN Str(x.v \o suffix) ELSE Raised("TypeError")

\* lines 656-658: one iteration of the loop over the academics
academic_entry(acad) ==
    [key \in DOMAIN acad \cup {"academic_course", "academic_institution"} |->
        IF key \in {"academic_course", "academic_institution"}
        THEN smart_title(get(acad, key, Str(<<>>)))
        ELSE acad[key]]

\* lines 687-712: the scalar fields of the context
context_fields(d) ==
    LET field(key) == get(d, key, Str(<<>>))
    IN  [company |-> format_caps(field("company")),
         company_title |-> format_caps(field("company_title")),
         cdd_name |-> format_caps(field("cdd_name")),
         cdd_city |-> plus(smart_title(field("cdd_city")), <<",", " ">>),
         cdd_state |-> format_caps(field("cdd_state")),
         cdd_ddi |-> IF falsy(field("cdd_ddi")) THEN Str(<<>>)
                     ELSE plus(field("cdd_ddi"), <<" ">>),
         cdd_ddd |-> plus(field("cdd_ddd"), <<" ">>),
         cdd_cel |-> field("cdd_cel"),
         cdd_email |-> field("cdd_email"),
         cdd_nationality |-> plus(smart_title(field("cdd_nationality")), <<" ">>),
         cdd_age |-> field("cdd_age"),
         cdd_personal |-> IF is_str(field("cdd_personal"))
                          THEN Str(<<" ">> \o field("cdd_personal").v)
                          ELSE Raised("TypeError"),
         abt_background |-> field("abt_background"),
         bhv_profile |-> field("bhv_profile"),
         job_bond |-> field("job_bond"),
         job_wage |-> field("job_wage"),
         job_variable |-> field("job_variable"),
         job_meal |-> field("job_meal"),
         job_food |-> field("job_food"),
         job_health |-> field("job_health"),
         job_dental |-> field("job_dental"),
         job_life |-> field("job_life"),
         job_pension |-> field("job_pension"),
         job_others |-> field("job_others"),
         job_expectation |-> field("job_expectation")]

\* the exception with which build_context ends
failed(exception, report_lang) ==
    [status |-> exception, line_items |-> <<>>, last_company |-> Str(<<>>),
     report_lang |-> report_lang, languages |-> <<>>]

\* lines 681-720: the context made of the employers and the scalar fields,
\* or the exception that leaves build_context
context_of(d, report_lang, items, fields) ==
    IF \E i \in 1..Len(items) : items[i].raised
    THEN failed("ValueError", report_lang)
    ELSE IF \E key \in DOMAIN fields : has_raised(fields[key])
    THEN failed("TypeError", report_lang)
    ELSE fields @@
         [status |-> "built",
          line_items |-> [i \in 1..Len(items) |->
                             [cdd_company |-> items[i].cdd_company,
                              company_desc |-> items[i].company_desc,
                              job_posts |-> items[i].job_posts,
                              company_start_date |-> items[i].company_start_date,
                              company_end_date |-> items[i].company_end_date,
                              job_count |-> items[i].job_count]],
          academics |-> [i \in 1..Len(get(d, "academics", <<>>)) |->
                            academic_entry(get(d, "academics", <<>>)[i])],
          languages |-> [i \in 1..Len(get(d, "languages", <<>>)) |->
                            language_entry(get(d, "languages", <<>>)[i], report_lang)],
          last_company |-> latest_of(items, 1, [is_none |-> TRUE,
                                                latest_date |-> <<>>,
                                                last_company |-> Str(<<>>)]).last_company,
          report_lang |-> report_lang,
          report_date |-> format_report_date(report_lang)]

\* the employers of the record after the loop of lines 590-654
built_items(raw_items, report_lang, pads) ==
    [i \in 1..Len(raw_items) |-> build_item(raw_items[i], report_lang, pads)]

\* lines 584-720: the context, or the exception that leaves build_context
build_context(d, pads) ==
    context_of(d, get(d, "report_lang", PT),
               built_items(get(d, "line_items", <<>>), get(d, "report_lang", PT), pads),
               context_fields(d))
(***************************************************************************)
(* Candidate records handed to build_context                               *)
(***************************************************************************)

\* the largest number of job posts in one candidate record
MaxJobPosts == 3

ReportLangs == {PT, EN}

Job(start_date, end_date) == [start_date |-> start_date, end_date |-> end_date]

\* raw job posts: closed jobs, jobs whose end is the ongoing token, a Portuguese
\* present phrase and an English present phrase, a month name with a year
\* followed by a present phrase
TenureJobs ==
    {Job(Str(<<"0","1","/","2","0","2","0">>), Str(<<"0","3","/","2","0","2","2">>)),
     Job(Str(<<"1","1","/","2","0","1","8">>), Str(<<"0","2","/","2","0","1","9">>)),
     Job(Str(<<"0","4","/","2","0","2","2">>), Str(<<"P","R","E","S","E","N","T">>)),
     Job(Str(<<"0","4","/","2","0","2","2">>), Str(<<"A","t","u","a","l","m","e","n","t","e">>)),
     Job(Str(<<"0","4","/","2","0","2","2">>), Str(<<"c","u","r","r","e","n","t","l","y">>)),
     Job(Str(<<"a","b","r","i","l"," ","2","0","2","1">>),
         Str(<<"2","0","2","0"," ","-"," ","p","r","e","s","e","n","t">>))}

\* raw job posts: a closed job, an ongoing job, years below 1000, a single-digit
\* month with a year-0000 end, a superscript digit with a null end, a number
\* with a month-name end
MalformedJobs ==
    {Job(Str(<<"0","1","/","2","0","2","0">>), Str(<<"0","3","/","2","0","2","2">>)),
     Job(Str(<<"0","4","/","2","0","2","2">>), Str(<<"P","R","E","S","E","N","T">>)),
     Job(Str(<<"0","5","/","0","9","9","9">>), Str(<<"0","6","/","0","9","9","9">>)),
     Job(Str(<<"6","/","2","0","2","4">>), Str(<<"0","5","/","0","0","0","0">>)),
     Job(Str(<<"²","²","/","2","0","2","0">>), Null),
     Job(Num(<<"2","0","2","0">>), Str(<<"D","e","c","e","m","b","e","r"," ","2","0","2","1">>))}

JobFamilies == {TenureJobs, MalformedJobs}

EmployerLetters == <<"A", "B", "C", "D", "E">>

\* the raw company name of the i-th employer
Employer(i) == Str(<<"E","m","p","l","o","y","e","r"," ">> \o <<EmployerLetters[i]>>)

\* the positions of jobs at which an employer's job posts start, when a new
\* employer starts after every position in cuts
first_jobs(cuts) == {1} \cup {c + 1 : c \in cuts}

\* the first job of the i-th employer, and the one after its last job
first_job(cuts, i) ==
    CHOOSE s \in first_jobs(cuts) : Cardinality({t \in first_jobs(cuts) : t <= s}) = i

end_job(cuts, i, total) ==
    IF i = Cardinality(first_jobs(cuts)) THEN total + 1 ELSE first_job(cuts, i + 1)

\* a record of the model: the job posts of jobs, in order, split into
\* consecutive employers after the positions in cuts
CandidateRecord(report_lang, jobs, cuts) ==
    [report_lang |-> report_lang,
     line_items |-> [i \in 1..Cardinality(first_jobs(cuts)) |->
                        [cdd_company |-> Employer(i),
                         job_posts |-> SubSeq(jobs, first_job(cuts, i),
                                              end_job(cuts, i, Len(jobs)) - 1)]]]

NotBuilt ==
    [status |-> "pending", line_items |-> <<>>, last_company |-> Str(<<>>),
     report_lang |-> <<>>, languages |-> <<>>]

\* a sheet whose titles are the canonical labels, one row per level
CanonicalSheet ==
    [k \in 1..Len(CANONICAL_LANGUAGE_LEVELS) |->
        LevelRow(CANONICAL_LANGUAGE_LEVELS[k].pt, CANONICAL_LANGUAGE_LEVELS[k].en,
                 <<"n", "í", "v", "e", "l", " ", DigitChar[k + 1]>>,
                 <<"l", "e", "v", "e", "l", " ", DigitChar[k + 1]>>)]

\* every record of one to MaxJobPosts job posts of one family, shared out in
\* every way among one or more employers, for each report language
Init ==
    /\ \E F \in JobFamilies : \E total \in 1..MaxJobPosts :
         \E jobs \in [1..total -> F] : \E cuts \in SUBSET (1..(total - 1)) :
           \E report_lang \in ReportLangs :
               data = CandidateRecord(report_lang, jobs, cuts)
    /\ pads_year \in BOOLEAN
    /\ df_levels = CanonicalSheet
    /\ NoRequest
    /\ today = Day(5, 11, 2026)
    /\ FreshModule
    /\ context = NotBuilt
    /\ date_str = Idle
    /\ lang_code = <<>>
    /\ norm_result = Idle
    /\ json_in = Idle
    /\ enforced = Idle
    /\ args = Idle
    /\ result = Idle

\* context = build_context(data)
BuildContext ==
    /\ context.status = "pending"
    /\ context' = build_context(data, pads_year)
    /\ UNCHANGED <<data, pads_year, today, df_levels, normalizer_vars, enforce_vars, call_vars,
                   request_vars, module_vars>>

Next == BuildContext

Spec == Init /\ [][Next]_vars

(***************************************************************************)
(* Properties of build_context                                             *)
(***************************************************************************)

Returned == context.status = "built"

\* the year and month of a canonical "MM/YYYY", as one number
Chronological(s) == 12 * int(SubSeq(s, 4, 7)) + int(SubSeq(s, 1, 2))

\* "MM/YYYY" of a datetime, both parts zero-padded
MMYYYY(dt) == zfill(digits(dt_month(dt)), 2) \o <<"/">> \o zfill(digits(dt_year(dt)), 4)

\* the job dates of an employer of the context that parse as dates
ParsedDates(dates) == {parse_mm_yyyy(Str(d)) : d \in dates} \ {NoDate}

StartDates(item) == {item.job_posts[j].start_date : j \in 1..Len(item.job_posts)}

EndDates(item) == {item.job_posts[j].end_date : j \in 1..Len(item.job_posts)}

\* C3: after build_context every job post has a start_date that is a canonical
\* MM/YYYY or "00/0000" and an end_date that is a canonical MM/YYYY, "00/0000"
\* or "PRESENT", and no raw date value makes build_context raise.
C3_JobDatesCanonical ==
    context.status # "pending" =>
        /\ Returned
        /\ \A i \in 1..Len(context.line_items) :
             \A j \in 1..Len(context.line_items[i].job_posts) :
                LET job == context.line_items[i].job_posts[j]
                IN  /\ CanonicalMMYYYY(job.start_date) \/ job.start_date = SENTINEL
                    /\ \/ CanonicalMMYYYY(job.end_date)
                       \/ job.end_date \in {SENTINEL, PRESENT}

\* C4: company_end_date is "PRESENT" if a job post of the employer is ongoing,
\* otherwise the latest parsed job end date as MM/YYYY, otherwise "00/0000".
C4_CompanyEndDate ==
    Returned =>
        \A i \in 1..Len(context.line_items) :
            LET item == context.line_items[i]
                ends == ParsedDates(EndDates(item))
            IN  item.company_end_date =
                    IF PRESENT \in EndDates(item) THEN PRESENT
                    ELSE IF ends # {} THEN MMYYYY(max(ends))
                    ELSE SENTINEL

\* C5: company_start_date is the earliest parsed job start date as MM/YYYY,
\* and "00/0000" when no job start date of the employer parsed.
C5_CompanyStartDate ==
    Returned =>
        \A i \in 1..Len(context.line_items) :
            LET item   == context.line_items[i]
                starts == ParsedDates(StartDates(item))
            IN  item.company_start_date =
                    IF starts # {} THEN MMYYYY(min(starts)) ELSE SENTINEL

\* the place of a company_end_date in the order
\* PRESENT > valid MM/YYYY (chronological) > sentinel or unparseable
Rank(end_date) ==
    IF end_date = PRESENT THEN <<2, 0>>
    ELSE IF CanonicalMMYYYY(end_date) THEN <<1, Chronological(end_date)>>
    ELSE <<0, 0>>

Greater(a, b) == Rank(a)[1] > Rank(b)[1] \/ (Rank(a)[1] = Rank(b)[1] /\ Rank(a)[2] > Rank(b)[2])

\* employer i has a greatest company_end_date and is the first that has it
FirstGreatest(items, i) ==
    /\ \A k \in 1..Len(items) : ~Greater(items[k].company_end_date, items[i].company_end_date)
    /\ \A k \in 1..(i - 1) : Greater(items[i].company_end_date, items[k].company_end_date)

\* C6: last_company is the cdd_company of the employer whose company_end_date
\* is greatest in the order PRESENT > valid MM/YYYY > sentinel or unparseable,
\* the first one in line_items order among equals.
C6_LastCompany ==
    Returned =>
        \E i \in 1..Len(context.line_items) :
            /\ FirstGreatest(context.line_items, i)
            /\ context.last_company = context.line_items[i].cdd_company

\* two employers share the greatest dated company_end_date, a third one has
\* the sentinel, and the first of the two is last_company
C6_Witness ==
    /\ Returned
    /\ Len(context.line_items) = 3
    /\ context.line_items[1].company_end_date = SENTINEL
    /\ context.line_items[2].company_end_date = <<"0","3","/","2","0","2","2">>
    /\ context.line_items[3].company_end_date = <<"0","3","/","2","0","2","2">>
    /\ context.last_company = context.line_items[2].cdd_company

\* the record of the end-to-end scenario: Employer A with one job 01/2020 to
\* 03/2022, then Employer B with one job from 04/2022 and the given end
Scenario(report_lang, ongoing) ==
    CandidateRecord(report_lang,
                    <<Job(Str(<<"0","1","/","2","0","2","0">>), Str(<<"0","3","/","2","0","2","2">>)),
                      Job(Str(<<"0","4","/","2","0","2","2">>), Str(ongoing))>>,
                    {1})

\* the ways of writing an ongoing end: the ongoing token and a present phrase
\* of the report language
OngoingEnds(report_lang) ==
    {PRESENT,
     IF report_lang = PT THEN <<"A","t","u","a","l","m","e","n","t","e">>
                         ELSE <<"c","u","r","r","e","n","t","l","y">>}

\* C7: for Employer A (01/2020 to 03/2022) followed by Employer B (04/2022,
\* ongoing) build_context yields last_company "EMPLOYER B" and Employer B's
\* company_end_date "PRESENT", for PT and EN and for the ongoing end written
\* as the ongoing token or as a present phrase of the report language.
C7_EndToEnd ==
    \A report_lang \in {PT, EN} : \A ongoing \in OngoingEnds(report_lang) :
        (context.status # "pending" /\ data = Scenario(report_lang, ongoing))
            => /\ Returned
               /\ context.last_company = Str(<<"E","M","P","L","O","Y","E","R"," ","B">>)
               /\ context.line_items[2].company_end_date = PRESENT

(***************************************************************************)
(* enforce_schema                                                          *)
(***************************************************************************)

\* the characters of the keys of the schema
KeyText ==
    [company |-> <<"c","o","m","p","a","n","y">>,
     company_title |-> <<"c","o","m","p","a","n","y","_","t","i","t","l","e">>,
     cdd_name |-> <<"c","d","d","_","n","a","m","e">>,
     cdd_email |-> <<"c","d","d","_","e","m","a","i","l">>,
     cdd_city |-> <<"c","d","d","_","c","i","t","y">>,
     cdd_state |-> <<"c","d","d","_","s","t","a","t","e">>,
     cdd_ddi |-> <<"c","d","d","_","d","d","i">>,
     cdd_ddd |-> <<"c","d","d","_","d","d","d">>,
     cdd_cel |-> <<"c","d","d","_","c","e","l">>,
     cdd_age |-> <<"c","d","d","_","a","g","e">>,
     cdd_nationality |-> <<"c","d","d","_","n","a","t","i","o","n","a","l","i","t","y">>,
     cdd_personal |-> <<"c","d","d","_","p","e","r","s","o","n","a","l">>,
     abt_background |-> <<"a","b","t","_","b","a","c","k","g","r","o","u","n","d">>,
     bhv_profile |-> <<"b","h","v","_","p","r","o","f","i","l","e">>,
     job_bond |-> <<"j","o","b","_","b","o","n","d">>,
     job_wage |-> <<"j","o","b","_","w","a","g","e">>,
     job_variable |-> <<"j","o","b","_","v","a","r","i","a","b","l","e">>,
     job_meal |-> <<"j","o","b","_","m","e","a","l">>,
     job_food |-> <<"j","o","b","_","f","o","o","d">>,
     job_health |-> <<"j","o","b","_","h","e","a","l","t","h">>,
     job_dental |-> <<"j","o","b","_","d","e","n","t","a","l">>,
     job_life |-> <<"j","o","b","_","l","i","f","e">>,
     job_pension |-> <<"j","o","b","_","p","e","n","s","i","o","n">>,
     job_others |-> <<"j","o","b","_","o","t","h","e","r","s">>,
     job_expectation |-> <<"j","o","b","_","e","x","p","e","c","t","a","t","i","o","n">>,
     last_company |-> <<"l","a","s","t","_","c","o","m","p","a","n","y">>,
     report_lang |-> <<"r","e","p","o","r","t","_","l","a","n","g">>,
     report_date |-> <<"r","e","p","o","r","t","_","d","a","t","e">>,
     line_items |-> <<"l","i","n","e","_","i","t","e","m","s">>,
     cdd_company |-> <<"c","d","d","_","c","o","m","p","a","n","y">>,
     company_desc |-> <<"c","o","m","p","a","n","y","_","d","e","s","c">>,
     job_posts |-> <<"j","o","b","_","p","o","s","t","s">>,
     job_title |-> <<"j","o","b","_","t","i","t","l","e">>,
     start_date |-> <<"s","t","a","r","t","_","d","a","t","e">>,
     end_date |-> <<"e","n","d","_","d","a","t","e">>,
     job_tasks |-> <<"j","o","b","_","t","a","s","k","s">>,
     task |-> <<"t","a","s","k">>,
     academics |-> <<"a","c","a","d","e","m","i","c","s">>,
     academic_course |-> <<"a","c","a","d","e","m","i","c","_","c","o","u","r","s","e">>,
     academic_institution |->
         <<"a","c","a","d","e","m","i","c","_","i","n","s","t","i","t","u","t","i","o","n">>,
     academic_conclusion |->
         <<"a","c","a","d","e","m","i","c","_","c","o","n","c","l","u","s","i","o","n">>,
     languages |-> <<"l","a","n","g","u","a","g","e","s">>,
     language |-> <<"l","a","n","g","u","a","g","e">>,
     language_level |-> <<"l","a","n","g","u","a","g","e","_","l","e","v","e","l">>,
     level_description |-> <<"l","e","v","e","l","_","d","e","s","c","r","i","p","t","i","o","n">>]

\* "key in data": a key of a dict, an element of a list, a substring of a str
key_in(key, d) ==
    CASE d.t = "dict" -> key \in DOMAIN d.v
      [] d.t = "list" -> \E i \in 1..Len(d.v) : d.v[i].t = "str" /\ d.v[i].v = KeyText[key]
      [] d.t = "str"  -> contains(d.v, KeyText[key])
      [] OTHER        -> FALSE

\* "key in data" ends in TypeError: a number and None are not iterable
key_in_raises(d) == d.t \in {"num", "null"}

\* "data[key]" ends in TypeError: a list and a str take integer indices only
getitem_raises(d) == d.t \in {"list", "str"}

RECURSIVE enforce_schema(_, _)
enforce_schema(d, schema) ==
    IF schema.t = "dict"
    THEN LET entry(key) ==
                 IF key_in(key, d)
                 THEN IF getitem_raises(d) THEN Raised("TypeError")
                      ELSE enforce_schema(d.v[key], schema.v[key])
                 ELSE enforce_schema(schema.v[key], schema.v[key])
         IN  IF key_in_raises(d) THEN Raised("TypeError")
             ELSE IF \E key \in DOMAIN schema.v : has_raised(entry(key))
             THEN Raised("TypeError")
             ELSE Dict([key \in DOMAIN schema.v |-> entry(key)])
    ELSE IF schema.t = "list"
    THEN IF d.t # "list" \/ Len(d.v) = 0 THEN schema
         ELSE IF \E i \in 1..Len(d.v) : has_raised(enforce_schema(d.v[i], schema.v[1]))
         THEN Raised("TypeError")
         ELSE List([i \in 1..Len(d.v) |-> enforce_schema(d.v[i], schema.v[1])])
    ELSE IF d.t # "null" THEN d ELSE schema

(***************************************************************************)
(* Parsed LLM outputs handed to enforce_schema                             *)
(***************************************************************************)

\* the largest number of elements of a line_items list
MaxListLen == 2

Five == Num(<<"5">>)

\* values for job_tasks: a string, a list of strings, a list of task objects
JobTasksValues ==
    {Str(<<"x">>),
     List(<<Str(<<"c","o","d","e","d">>)>>),
     List(<<Dict([task |-> Str(<<"c","o","d","e","d">>)])>>),
     List(<<Dict([task |-> Null])>>)}

\* values for job_posts: null, an empty list, a list of numbers, a list of
\* job objects
JobPostsValues ==
    {Null, List(<<>>), List(<<Five>>)} \cup
    {List(<<Dict([job_title |-> Str(<<"d","e","v">>), job_tasks |-> tasks])>>) :
        tasks \in JobTasksValues}

\* elements of line_items: a number, null, a string, a string that contains
\* a key, employer objects
LineItemValues ==
    {Five, Null, Str(<<"A","c","m","e">>),
     Str(<<"n","o"," ","c","d","d","_","c","o","m","p","a","n","y">>),
     Dict([cdd_company |-> Str(<<"A","c","m","e">>)])} \cup
    {Dict([cdd_company |-> Str(<<"A","c","m","e">>), job_posts |-> posts]) : posts \in JobPostsValues}

\* values for line_items: null, a string, an empty list, lists of one to
\* MaxListLen elements
LineItemsValues ==
    {Null, Str(<<"A","c","m","e">>), List(<<>>)} \cup
    UNION {{List(items) : items \in [1..n -> LineItemValues]} : n \in 1..MaxListLen}

\* values for company: absent is modelled by the records without the key
CompanyValues == {Null, Five, Str(<<"A","c","m","e">>)}

\* the values json.loads can return: scalars, lists, and objects with some
\* keys of the schema and a key that is not in the schema
JsonInputs ==
    {Null, Five, Str(<<>>), Str(<<"A","c","m","e">>), Str(<<"m","y"," ","c","o","m","p","a","n","y">>),
     List(<<>>), List(<<Five>>), List(<<Str(<<"c","o","m","p","a","n","y">>)>>),
     List(<<Dict([company |-> Str(<<"A","c","m","e">>)])>>),
     Dict([nickname |-> Str(<<"x">>)])} \cup
    {Dict([line_items |-> li]) : li \in LineItemsValues} \cup
    {Dict([company |-> c, line_items |-> li, nickname |-> Str(<<"x">>)]) :
        c \in CompanyValues, li \in LineItemsValues}

InitEnforce ==
    /\ json_in \in JsonInputs
    /\ enforced = Pending
    /\ date_str = Idle
    /\ lang_code = <<>>
    /\ norm_result = Idle
    /\ data = Idle
    /\ context = Idle
    /\ pads_year = FALSE
    /\ df_levels = <<>>
    /\ NoRequest
    /\ today = Day(5, 11, 2026)
    /\ FreshModule
    /\ args = Idle
    /\ result = Idle

\* validated_data = enforce_schema(parsed_data, REQUIRED_SCHEMA)
Enforce ==
    /\ enforced.t = "pending"
    /\ enforced' = enforce_schema(json_in, required_schema)
    /\ UNCHANGED <<json_in, normalizer_vars, context_vars, call_vars, request_vars, module_vars>>

NextEnforce == Enforce

SpecEnforce == InitEnforce /\ [][NextEnforce]_vars

(***************************************************************************)
(* Properties of enforce_schema                                            *)
(***************************************************************************)

\* value is an object with exactly the keys of the template
SameKeys(value, template) == value.t = "dict" /\ DOMAIN value.v = DOMAIN template.v

\* value is a list whose elements are objects with exactly the keys of the
\* item template
ItemsHaveKeys(value, template) ==
    /\ value.t = "list"
    /\ \A i \in 1..Len(value.v) : SameKeys(value.v[i], template)

\* C1: for every JSON-like input enforce_schema(value, REQUIRED_SCHEMA) returns
\* a mapping with exactly the keys of the template, and every element of
\* line_items, job_posts, job_tasks, academics and languages in it is a
\* mapping with exactly the keys of its item template.
C1_ResultHasTemplateShape ==
    enforced.t # "pending" =>
        /\ SameKeys(enforced, REQUIRED_SCHEMA)
        /\ ItemsHaveKeys(enforced.v.academics, ACADEMIC_TEMPLATE)
        /\ ItemsHaveKeys(enforced.v.languages, LANGUAGE_TEMPLATE)
        /\ ItemsHaveKeys(enforced.v.line_items, LINE_ITEM_TEMPLATE)
        /\ \A i \in 1..Len(enforced.v.line_items.v) :
             LET posts == enforced.v.line_items.v[i].v.job_posts
             IN  /\ ItemsHaveKeys(posts, JOB_POST_TEMPLATE)
                 /\ \A j \in 1..Len(posts.v) :
                      ItemsHaveKeys(posts.v[j].v.job_tasks, TASK_TEMPLATE)

\* C2: enforce_schema never raises: for every JSON-like value the call
\* returns a value instead of ending in an exception.
C2_NeverRaises == enforced.t # "pending" => ~has_raised(enforced)


(***************************************************************************)
(* is_present_term applied to one end date                                 *)
(***************************************************************************)

\* the value a call returned
Returns(value) == [t |-> "returned", v |-> value]

\* a call of function fn with the arguments arguments, not yet returned
Call(fn, arguments) == [t |-> fn, v |-> arguments]

PresentPhrases ==
    {PRESENT_TERMS_PT[i] : i \in DOMAIN PRESENT_TERMS_PT} \cup
    {PRESENT_TERMS_EN[i] : i \in DOMAIN PRESENT_TERMS_EN}

\* a phrase as an end date of a CV: bare, in other letter cases, padded with
\* whitespace and inside a longer text
Written(phrase) ==
    {phrase, upper(phrase), capitalize(phrase),
     <<" "," ">> \o phrase \o <<" ">> \o <<"\t">>,
     <<"a","t","é"," ">> \o phrase,
     <<"2","0","2","0"," ","-"," ">> \o upper(phrase) \o <<" ">>,
     phrase \o <<"l","y">>}

EndStrings ==
    UNION {{Str(w) : w \in Written(phrase)} : phrase \in PresentPhrases} \cup
    CanonicalDates \cup
    {Str(<<"h","o","j","e">>), Str(<<>>), Str(<<" ">>), Str(<<"p","r","e","s","e","n">>),
            Str(<<"p","r","e"," ","s","e","n","t">>),
     Str(<<"0","0","/","0","0","0","0">>), Str(<<"0","3","/","2","0","2","0">>), Str(<<"m","a",
             "r","c","h"," ","2","0","2","0">>),
     Num(<<"2","0","2","0">>), Null, [t |-> "list", v |-> <<Str(<<"p","r","e","s","e","n",
             "t">>)>>]}

InitPresent ==
    /\ \E end_str \in EndStrings : \E report_lang \in LangCodes :
         args = Call("is_present_term", <<end_str, report_lang>>)
    /\ result = Pending
    /\ date_str = Idle
    /\ lang_code = <<>>
    /\ norm_result = Idle
    /\ json_in = Idle
    /\ enforced = Idle
    /\ data = Idle
    /\ context = Idle
    /\ pads_year = FALSE
    /\ df_levels = <<>>
    /\ NoRequest
    /\ today = Day(5, 11, 2026)
    /\ FreshModule

\* is_present_term(end_str, report_lang)
IsPresentTerm ==
    /\ args.t = "is_present_term"
    /\ result.t = "pending"
    /\ result' = Returns(is_present_term(args.v[1], args.v[2]))
    /\ UNCHANGED <<args, normalizer_vars, enforce_vars, context_vars, request_vars, module_vars>>

NextPresent == IsPresentTerm

SpecPresent == InitPresent /\ [][NextPresent]_vars

(***************************************************************************)
(* Properties of is_present_term                                           *)
(***************************************************************************)

\* s without its leading and trailing whitespace
Trimmed(s) ==
    LET inside == {i \in 1..Len(s) : s[i] \notin Whitespace}
    IN  IF inside = {} THEN <<>>
        ELSE SubSeq(s, CHOOSE i \in inside : \A j \in inside : i <= j,
                       CHOOSE i \in inside : \A j \in inside : i >= j)

\* text is phrase, or phrase with something before and after it
EqualsOrContains(text, phrase) ==
    \E before, after \in 0..Len(text) :
        /\ before + Len(phrase) + after = Len(text)
        /\ \A i \in 1..Len(phrase) : text[before + i] = phrase[i]

\* the ongoing-employment phrases of a language code
OngoingPhrases(code) ==
    IF code = PT THEN {PRESENT_TERMS_PT[i] : i \in DOMAIN PRESENT_TERMS_PT}
    ELSE {PRESENT_TERMS_EN[i] : i \in DOMAIN PRESENT_TERMS_EN}

\* C11: for lang PT or EN, is_present_term(s, lang) is true exactly when s is
\* a string whose trimmed, lower-cased form equals or contains one of the
\* ongoing-employment phrases of that language; it is false for every
\* canonical MM/YYYY date and for every non-string
C11_PresentTermContract ==
    (args.t = "is_present_term" /\ result.t = "returned" /\ args.v[2] \in {PT, EN}) =>
        LET s    == args.v[1]
            lang == args.v[2]
        IN  /\ result.v = TRUE <=>
                  /\ is_str(s)
                  /\ \E phrase \in OngoingPhrases(lang) :
                         EqualsOrContains(lower(Trimmed(s.v)), phrase)
            /\ (~is_str(s) \/ s \in CanonicalDates) => result.v = FALSE

\* "  2020 - ATUALMENTE " under PT is reported as ongoing
C11_Witness ==
    /\ args.t = "is_present_term"
    /\ args.v = <<Str(<<"2","0","2","0"," ","-"," ","A","T","U","A","L","M","E","N","T","E",
            " ">>), PT>>
    /\ result.t = "returned"
    /\ result.v = TRUE

(***************************************************************************)
(* Aggregation of an employer with a single job post                       *)
(***************************************************************************)

\* C12: for every employer with exactly one job post that is not ongoing,
\* build_context leaves company_start_date equal to that job's normalized
\* start_date and company_end_date equal to its normalized end_date, for
\* every raw start and end value
C12_SingleJobEmployer ==
    Returned =>
        \A i \in 1..Len(context.line_items) :
            LET item == context.line_items[i]
            IN  (item.job_count = 1 /\ item.job_posts[1].end_date # PRESENT) =>
                    /\ item.company_start_date = item.job_posts[1].start_date
                    /\ item.company_end_date = item.job_posts[1].end_date

(***************************************************************************)
(* canonicalize_language_level applied to one raw level                    *)
(***************************************************************************)

Levels == 1..Len(CANONICAL_LANGUAGE_LEVELS)

LevelLabels ==
    {CANONICAL_LANGUAGE_LEVELS[k].pt : k \in Levels} \cup
    {CANONICAL_LANGUAGE_LEVELS[k].en : k \in Levels}

LevelPatterns ==
    UNION {{CANONICAL_LANGUAGE_LEVELS[k].matches[i] :
               i \in 1..Len(CANONICAL_LANGUAGE_LEVELS[k].matches)} : k \in Levels}

\* a level as a CV writes it: the label or a pattern in several letter cases,
\* padded, and inside a longer text; levels no pattern matches; non-strings
RawLevels ==
    UNION {{Str(l), Str(lower(l)), Str(upper(l)), Str(<<" ">> \o l \o <<" "," ">>)} :
              l \in LevelLabels} \cup
    UNION {{Str(p), Str(capitalize(p)), Str(<<"n","í","v","e","l"," ">> \o p \o <<" ","(","B",
            "2",")">>)} :
              p \in LevelPatterns} \cup
    {Str(<<"B","2">>), Str(<<>>), Str(<<"g","o","o","d">>), Str(<<"b","á","s","i","c">>),
            Num(<<"5">>), Null}

InitLevel ==
    /\ \E raw_level \in RawLevels : \E report_lang \in LangCodes :
         args = Call("canonicalize_language_level", <<raw_level, report_lang>>)
    /\ result = Pending
    /\ date_str = Idle
    /\ lang_code = <<>>
    /\ norm_result = Idle
    /\ json_in = Idle
    /\ enforced = Idle
    /\ data = Idle
    /\ context = Idle
    /\ pads_year = FALSE
    /\ df_levels = <<>>
    /\ NoRequest
    /\ today = Day(5, 11, 2026)
    /\ FreshModule

\* canonical_level = canonicalize_language_level(raw_level, report_lang)
CanonicalizeLanguageLevel ==
    /\ args.t = "canonicalize_language_level"
    /\ result.t = "pending"
    /\ result' = Returns(canonicalize_language_level(args.v[1], args.v[2]))
    /\ UNCHANGED <<args, normalizer_vars, enforce_vars, context_vars, request_vars, module_vars>>

NextLevel == CanonicalizeLanguageLevel

SpecLevel == InitLevel /\ [][NextLevel]_vars

(***************************************************************************)
(* Properties of canonicalize_language_level                               *)
(***************************************************************************)

\* the levels whose target-language label is raw, whatever the letter case
ExactLevels(raw, key) ==
    {k \in Levels : lower(label(CANONICAL_LANGUAGE_LEVELS[k], key)) = raw}

\* the levels one of whose patterns occurs in raw
PatternLevels(raw) ==
    {k \in Levels :
        \E i \in 1..Len(CANONICAL_LANGUAGE_LEVELS[k].matches) :
            contains(raw, CANONICAL_LANGUAGE_LEVELS[k].matches[i])}

\* exact match against the labels first, then the patterns in declaration order
ExactThenPatterns(raw, key) ==
    IF ExactLevels(raw, key) # {}
    THEN label(CANONICAL_LANGUAGE_LEVELS[min(ExactLevels(raw, key))], key)
    ELSE IF PatternLevels(raw) # {}
    THEN label(CANONICAL_LANGUAGE_LEVELS[min(PatternLevels(raw))], key)
    ELSE <<>>

\* C13: canonicalize_language_level tries the exact case-insensitive match
\* against the target-language label of each of the five levels first and
\* falls back to the patterns, in declaration order, only when no label
\* matches; so every target-language label canonicalizes to itself
C13_ExactMatchFirst ==
    (args.t = "canonicalize_language_level" /\ result.t = "returned"
        /\ is_str(args.v[1])) =>
        LET raw == lower(strip(args.v[1].v))
            key == lang_key(args.v[2])
        IN  /\ result.v = ExactThenPatterns(raw, key)
            /\ \A k \in Levels :
                   args.v[1].v = label(CANONICAL_LANGUAGE_LEVELS[k], key) =>
                       result.v = args.v[1].v

(***************************************************************************)
(* Candidate records with languages                                        *)
(***************************************************************************)

\* the largest number of languages in one candidate record
MaxLanguages == 2

\* a sheet whose titles are not the canonical labels
LegacySheet ==
    << LevelRow(<<"B","á","s","i","c","o">>, <<"B","a","s","i","c">>, <<"n","í","v","e","l"," ",
            "1">>, <<"l","e","v","e","l"," ","1">>),
       LevelRow(<<"F","l","u","e","n","t","e">>, <<"F","l","u","e","n","t">>, <<"n","í","v","e",
               "l"," ","5">>, <<"l","e","v","e","l"," ","5">>) >>

\* the sheets of the model: the canonical one, one with other titles, and one
\* without rows
Sheets == {CanonicalSheet, LegacySheet, <<>>}

\* the days on which the model builds a report
Days == {Day(5, 11, 2026), Day(22, 3, 2027)}

\* language levels as the LLM returns them
LanguageLevels ==
    {Str(<<"F","l","u","e","n","t">>), Str(<<"I","n","t","e","r","m","e","d","i","á","r","i",
            "o">>), Str(<<"b","a","s","i","c"," ","k","n","o","w","l","e","d","g","e">>),
            Str(<<"a","v","a","n","ç","a","d","o">>),
     Str(<<"B","2">>), Str(<<"g","o","o","d">>), Str(<<" "," ">>), Str(<<>>), Num(<<"5">>),
             Null}

\* one entry of "languages": with a level, and without the key
LanguageRecords ==
    {[language |-> Str(<<"e","n","g","l","i","s","h">>), language_level |-> level,
      level_description |-> Str(<<>>)] : level \in LanguageLevels} \cup
    {[language |-> Str(<<"l","í","n","g","u","a"," ","d","e"," ","s","i","n","a","i","s">>)]}

\* report_lang as the record carries it; Missing stands for a record without
\* the key
Missing == <<"?">>

ReportLangValues == {PT, EN, <<"p","t">>, <<"E","S">>, <<>>, Missing}

\* an employer whose only job is dated in the words of one language
WordedEmployers ==
    {[cdd_company |-> Str(<<"A","c","m","e">>),
      job_posts |-> <<Job(Str(start), Str(end))>>] :
        <<start, end>> \in {<<<<"a","b","r","i","l"," ","2","0","2","1">>, <<"A","t","u","a",
                "l","m","e","n","t","e">>>>,
                           <<<<"a","p","r","i","l"," ","2","0","2","1">>, <<"c","u","r","r","e",
                                   "n","t","l","y">>>>,
                           <<<<"0","1","/","2","0","2","0">>, <<"P","R","E","S","E","N",
                                   "T">>>>}}

\* the record with the given fields, and no report_lang when it is Missing
WithReportLang(fields, report_lang) ==
    IF report_lang = Missing THEN fields
    ELSE [key \in DOMAIN fields \cup {"report_lang"} |->
             IF key = "report_lang" THEN report_lang ELSE fields[key]]

InitReport ==
    /\ \E n \in 0..MaxLanguages : \E languages \in [1..n -> LanguageRecords] :
         \E line_items \in {<<>>} \cup {<<e>> : e \in WordedEmployers} :
           \E report_lang \in ReportLangValues :
               data = WithReportLang([line_items |-> line_items,
                                      languages |-> languages], report_lang)
    /\ df_levels \in Sheets
    /\ NoRequest
    /\ today \in Days
    /\ FreshModule
    /\ pads_year = FALSE
    /\ context = NotBuilt
    /\ date_str = Idle
    /\ lang_code = <<>>
    /\ norm_result = Idle
    /\ json_in = Idle
    /\ enforced = Idle
    /\ args = Idle
    /\ result = Idle

NextReport == BuildContext

SpecReport == InitReport /\ [][NextReport]_vars

(***************************************************************************)
(* Properties of the language loop                                         *)
(***************************************************************************)

\* the five canonical labels of a report language
CanonicalLabels(report_lang) ==
    {label(CANONICAL_LANGUAGE_LEVELS[k], lang_key(report_lang)) : k \in Levels}

\* C14: after the language loop every language record is kept and its
\* language_level is one of the five canonical labels of the active report
\* language, for every raw language_level
C14_LanguageLevelCanonical ==
    Returned =>
        /\ Len(context.languages) = Len(data.languages)
        /\ \A i \in 1..Len(context.languages) :
               LET lang == context.languages[i]
               IN  /\ "language_level" \in DOMAIN lang
                   /\ is_str(lang.language_level)
                   /\ lang.language_level.v \in CanonicalLabels(context.report_lang)

(***************************************************************************)
(* translate_text: one leaf sent to the external translator                *)
(***************************************************************************)

\* s.startswith(prefix)
startswith(s, prefix) ==
    Len(s) >= Len(prefix) /\ SubSeq(s, 1, Len(prefix)) = prefix

\* line 474: the beginnings of an answer that is taken for a refusal
REFUSAL_PREFIXES == {<<"i","'","m"," ","s","o","r","r","y">>, <<"s","o","r","r","y">>, <<"a",
        "s"," ","a","n">>, <<"a","s"," ","a">>}

\* line 474: the fragments of an answer that is taken for a request for context
CLARIFICATION_FRAGMENTS == {<<"c","o","u","l","d"," ","s","t","a","n","d"," ","f","o","r"," ",
        "m","a","n","y"," ","t","h","i","n","g","s">>, <<"p","r","o","v","i","d","e"," ","m",
        "o","r","e"," ","c","o","n","t","e","x","t">>}

\* line 474, without the test for the empty answer
is_refusal(answer) ==
    \/ \E prefix \in REFUSAL_PREFIXES : startswith(lower(answer), prefix)
    \/ \E fragment \in CLARIFICATION_FRAGMENTS : contains(lower(answer), fragment)

\* translate_text without the handler of lines 479-480: the exception of the
\* client leaves the function
translate_text_without_handler(text, target_lang, response) ==
    IF ~is_str(text) \/ strip(text.v) = <<>> THEN text
    ELSE IF upper(target_lang) \notin {EN, PT} THEN text
    ELSE IF ~is_str(response) THEN response
    ELSE LET answer == strip(response.v)
         IN  IF answer = <<>> \/ is_refusal(answer) THEN text
             ELSE IF strip(answer) = strip(text.v) THEN text
             ELSE Str(answer)

\* lines 452-480; response is the outcome of the external call: the content
\* of the first choice, or the exception raised by the client
translate_text(text, target_lang, response) ==
    IF ~is_str(text) \/ strip(text.v) = <<>> THEN text
    ELSE IF upper(target_lang) \notin {EN, PT} THEN text
    ELSE IF ~is_str(response) THEN text
    ELSE LET answer == strip(response.v)
         IN  IF answer = <<>> \/ is_refusal(answer) THEN text
             ELSE IF strip(answer) = strip(text.v) THEN text
             ELSE Str(answer)

(***************************************************************************)
(* translate_text applied to one text and one answer of the translator     *)
(***************************************************************************)

Texts ==
    {Str(<<"g","e","r","e","n","t","e"," ","d","e"," ","v","e","n","d","a","s">>), Str(<<" ",
            "s","a","l","e","s"," ","m","a","n","a","g","e","r"," ">>), Str(<<"C","R","M">>),
            Str(<<>>), Str(<<" "," ">>),
     Num(<<"5">>), Null}

TargetLangs == {EN, PT, <<"e","n">>, <<"F","R">>, <<>>}

\* what the external call can produce for a text: translations, the text
\* itself, nothing, refusals, requests for context, another language, an error
Responses(text) ==
    {Str(<<"s","a","l","e","s"," ","m","a","n","a","g","e","r">>), Str(<<"G","e","r","e","n",
            "t","e"," ","d","e"," ","v","e","n","d","a","s">>), Str(<<" ","s","a","l","e","s",
            " ","m","a","n","a","g","e","r","\t">>),
     Str(<<>>), Str(<<" "," ">>),
     Str(<<"I","'","m"," ","s","o","r","r","y",","," ","I"," ","c","a","n","n","o","t"," ","t",
             "r","a","n","s","l","a","t","e"," ","t","h","a","t",".">>), Str(<<"S","o","r","r",
             "y",","," ","w","h","a","t","?">>),
     Str(<<"A","s"," ","a","n"," ","A","I"," ","m","o","d","e","l"," ","I"," ","n","e","e","d",
             " ","t","h","e"," ","t","e","x","t",".">>), Str(<<"a","s"," ","a"," ","m","a","n",
             "a","g","e","r"," ","o","f"," ","s","a","l","e","s">>),
     Str(<<"C","R","M"," ","c","o","u","l","d"," ","s","t","a","n","d"," ","f","o","r"," ","m",
             "a","n","y"," ","t","h","i","n","g","s",".">>), Str(<<"P","l","e","a","s","e"," ",
             "p","r","o","v","i","d","e"," ","m","o","r","e"," ","c","o","n","t","e","x","t",
             ".">>),
     Str(<<"e","l"," ","g","e","r","e","n","t","e"," ","d","e"," ","v","e","n","t","a","s">>),
             Str(<<"g","e","r","e","n","t","e"," ","c","o","n"," ","5"," ","a","ñ","o","s"," ",
             "d","e"," ","v","e","n","t","a","s">>),
     Raised("APIError")} \cup
    (IF is_str(text) THEN {text, Str(strip(text.v))} ELSE {})

InitTranslateText ==
    /\ \E text \in Texts : \E target_lang \in TargetLangs :
         \E response \in Responses(text) :
             args = Call("translate_text", <<text, target_lang, response>>)
    /\ result = Pending
    /\ date_str = Idle
    /\ lang_code = <<>>
    /\ norm_result = Idle
    /\ json_in = Idle
    /\ enforced = Idle
    /\ data = Idle
    /\ context = Idle
    /\ pads_year = FALSE
    /\ df_levels = <<>>
    /\ NoRequest
    /\ today = Day(5, 11, 2026)
    /\ FreshModule

\* translate_text(text, target_lang)
TranslateText ==
    /\ args.t = "translate_text"
    /\ result.t = "pending"
    /\ result' = Returns(translate_text(args.v[1], args.v[2], args.v[3]))
    /\ UNCHANGED <<args, normalizer_vars, enforce_vars, context_vars, request_vars, module_vars>>

NextTranslateText == TranslateText

SpecTranslateText == InitTranslateText /\ [][NextTranslateText]_vars

(***************************************************************************)
(* Properties of translate_text                                            *)
(***************************************************************************)

\* words that belong to neither Portuguese nor English
ThirdLanguageMarkers == {<<"e","l">>, <<"l","o","s">>, <<"y">>, <<"c","o","n">>, <<"a","ñ","o",
        "s">>, <<"v","e","n","t","a","s">>}

HasThirdLanguageMarkers(answer) ==
    \E i \in 1..Len(split(lower(answer))) :
        split(lower(answer))[i] \in ThirdLanguageMarkers

\* the call reached the translator and the translator answered
Translated ==
    /\ args.t = "translate_text"
    /\ result.t = "returned"
    /\ is_str(args.v[1]) /\ strip(args.v[1].v) # <<>>
    /\ upper(args.v[2]) \in {EN, PT}
    /\ is_str(args.v[3])

\* C15: translate_text keeps the original string whenever the external result
\* is empty, is a refusal or clarification phrase, is identical to the input
\* or contains lexical markers of a third language; only in the remaining
\* case is the translated string returned
C15_KeepsOriginalOnBadAnswer ==
    Translated =>
        LET text   == args.v[1]
            answer == strip(args.v[3].v)
        IN  IF \/ answer = <<>>
               \/ is_refusal(answer)
               \/ answer = strip(text.v)
               \/ HasThirdLanguageMarkers(answer)
            THEN result.v = text
            ELSE result.v = Str(answer)

(***************************************************************************)
(* translate_json_values: the translation of a whole record                *)
(***************************************************************************)

\* lines 483-487
default_skip ==
    {"language_level", "level_description", "report_lang", "report_date",
     "company_title", "cdd_name", "last_company", "cdd_email", "cdd_cel", "cdd_ddd",
     "cdd_ddi", "cdd_age", "cdd_state", "cdd_city", "cdd_company",
     "company_start_date", "company_end_date", "start_date", "end_date",
     "academic_conclusion", "academic_institution"}

\* the ways the external translator behaves in the model
Translators == {"translates", "echoes", "empty", "refuses", "spanish", "raises"}

\* the outcome of the external call for one text
respond(translator, text) ==
    CASE translator = "translates" -> Str(<<"t","r","a","n","s","l","a","t","e","d",
            " ">> \o strip(text.v))
      [] translator = "echoes"     -> text
      [] translator = "empty"      -> Str(<<>>)
      [] translator = "refuses"    -> Str(<<"I","'","m"," ","s","o","r","r","y",","," ","I"," ",
              "c","a","n","n","o","t"," ","t","r","a","n","s","l","a","t","e"," ","t","h","a",
              "t",".">>)
      [] translator = "spanish"    -> Str(<<"e","l"," ">> \o strip(text.v) \o <<" ","y"," ","m",
              "á","s">>)
      [] translator = "raises"     -> Raised("APIError")

\* translate_json_values forgetting default_skip when the caller names keys
RECURSIVE translate_json_values_caller_keys_only(_, _, _, _)
translate_json_values_caller_keys_only(d, target_lang, skip_keys, translator) ==
    LET keys == IF skip_keys = {} THEN default_skip ELSE skip_keys
    IN  CASE d.t = "dict" ->
                 Dict([k \in DOMAIN d.v |->
                          IF k \notin keys
                          THEN translate_json_values_caller_keys_only(
                                   d.v[k], target_lang, keys, translator)
                          ELSE d.v[k]])
          [] d.t = "list" ->
                 List([i \in 1..Len(d.v) |->
                          translate_json_values_caller_keys_only(
                              d.v[i], target_lang, keys, translator)])
          [] d.t = "str" -> translate_text(d, target_lang, respond(translator, d))
          [] OTHER -> d

\* lines 482-499; skip_keys is the caller's set, {} for None
RECURSIVE translate_json_values(_, _, _, _)
translate_json_values(d, target_lang, skip_keys, translator) ==
    LET keys == skip_keys \cup default_skip
    IN  CASE d.t = "dict" ->
                 Dict([k \in DOMAIN d.v |->
                          IF k \notin keys
                          THEN translate_json_values(d.v[k], target_lang, keys, translator)
                          ELSE d.v[k]])
          [] d.t = "list" ->
                 List([i \in 1..Len(d.v) |->
                          translate_json_values(d.v[i], target_lang, keys, translator)])
          [] d.t = "str" -> translate_text(d, target_lang, respond(translator, d))
          [] OTHER -> d

(***************************************************************************)
(* translate_json_values applied to one structure                          *)
(***************************************************************************)

\* a job post with n tasks
JobOf(n) ==
    Dict([job_title |-> Str(<<"g","e","r","e","n","t","e"," ","d","e"," ","v","e","n","d","a",
            "s">>),
          start_date |-> Str(<<"m","a","r","ç","o"," ","2","0","2","0">>),
          end_date |-> Str(<<"a","t","u","a","l","m","e","n","t","e">>),
          job_tasks |-> List([i \in 1..n |->
                                 Dict([task |-> Str(<<"v","e","n","d","e","r",
                                         " ">> \o <<DigitChar[i + 1]>>)])])])

\* a candidate record with one employer, one job post of n tasks, one
\* academic entry and one language
RecordOf(n) ==
    Dict([cdd_name |-> Str(<<"m","a","r","i","a"," ","s","i","l","v","a">>),
          cdd_age |-> Num(<<"3","0">>),
          job_bond |-> Null,
          abt_background |-> Str(<<"e","x","p","e","r","i","ê","n","c","i","a"," ","e","m"," ",
                  "v","e","n","d","a","s">>),
          report_lang |-> Str(<<"E","N">>),
          note |-> Str(<<"n","o","t","a"," ","d","o"," ","r","e","c","r","u","t","a","d","o",
                  "r">>),
          line_items |-> List(<<Dict([cdd_company |-> Str(<<"a","c","m","e"," ","l","t","d",
                  "a">>),
                                      company_desc |-> Str(<<"e","m","p","r","e","s","a"," ",
                                              "d","e"," ","v","e","n","d","a","s">>),
                                      job_posts |-> List(<<JobOf(n)>>)])>>),
          academics |-> List(<<Dict([academic_course |-> Str(<<"d","i","r","e","i","t","o">>),
                                     academic_institution |-> Str(<<"u","s","p">>),
                                     academic_conclusion |-> Str(<<"2","0","1","0">>)])>>),
          languages |-> List(<<Dict([language |-> Str(<<"i","n","g","l","ê","s">>),
                                     language_level |-> Str(<<"F","l","u","e","n","t">>),
                                     level_description |-> Str(<<"f","a","l","a"," ","b","e",
                                             "m">>)])>>)])

Structures ==
    {RecordOf(n) : n \in 0..MaxListLen} \cup
    {JobOf(n) : n \in 0..MaxListLen} \cup
    {Str(<<"v","e","n","d","a","s">>), Num(<<"5">>), Null, List(<<>>), Dict(<<>>),
     List(<<Str(<<"v","e","n","d","a","s">>), Num(<<"5">>), List(<<Str(<<"c","o","m","p","r",
             "a","s">>)>>)>>),
     Dict([cdd_name |-> List(<<Str(<<"m","a","r","i","a">>), Dict([task |-> Str(<<"v","e","n",
             "d","e","r">>)])>>),
           task |-> Dict([cdd_city |-> Str(<<"s","ã","o"," ","p","a","u","l","o">>),
                   other |-> Str(<<"c","i","d","a","d","e">>)])])}

\* the caller's skip_keys: None, and sets of keys
SkipKeys == {{}, {"note"}, {"task", "abt_background"}}

InitTranslateValues ==
    /\ \E d \in Structures : \E target_lang \in {EN, PT, <<"F","R">>} :
         \E skip_keys \in SkipKeys : \E translator \in Translators :
             args = Call("translate_json_values",
                         <<d, target_lang, skip_keys, translator>>)
    /\ result = Pending
    /\ date_str = Idle
    /\ lang_code = <<>>
    /\ norm_result = Idle
    /\ json_in = Idle
    /\ enforced = Idle
    /\ data = Idle
    /\ context = Idle
    /\ pads_year = FALSE
    /\ df_levels = <<>>
    /\ NoRequest
    /\ today = Day(5, 11, 2026)
    /\ FreshModule

\* translate_json_values(data, target_lang, skip_keys)
TranslateJsonValues ==
    /\ args.t = "translate_json_values"
    /\ result.t = "pending"
    /\ result' = Returns(translate_json_values(args.v[1], args.v[2], args.v[3],
                                               args.v[4]))
    /\ UNCHANGED <<args, normalizer_vars, enforce_vars, context_vars, request_vars, module_vars>>

NextTranslateValues == TranslateJsonValues

SpecTranslateValues == InitTranslateValues /\ [][NextTranslateValues]_vars

(***************************************************************************)
(* Properties of translate_json_values                                     *)
(***************************************************************************)

\* out has the keys, the list lengths and the non-string scalars of in, and a
\* string wherever in has one
RECURSIVE SameShape(_, _)
SameShape(in, out) ==
    CASE in.t = "dict" ->
             /\ out.t = "dict"
             /\ DOMAIN out.v = DOMAIN in.v
             /\ \A k \in DOMAIN in.v : SameShape(in.v[k], out.v[k])
      [] in.t = "list" ->
             /\ out.t = "list"
             /\ Len(out.v) = Len(in.v)
             /\ \A i \in 1..Len(in.v) : SameShape(in.v[i], out.v[i])
      [] in.t = "str" -> out.t = "str"
      [] OTHER -> out = in

\* what is stored under a key of exempt, at any depth, is the same in out
RECURSIVE ExemptUnchanged(_, _, _)
ExemptUnchanged(in, out, exempt) ==
    CASE in.t = "dict" ->
             \A k \in DOMAIN in.v :
                 IF k \in exempt THEN out.v[k] = in.v[k]
                 ELSE ExemptUnchanged(in.v[k], out.v[k], exempt)
      [] in.t = "list" ->
             \A i \in 1..Len(in.v) : ExemptUnchanged(in.v[i], out.v[i], exempt)
      [] OTHER -> TRUE

\* C16: translate_json_values returns a structure with the same keys, the same
\* list lengths and order and identical non-string scalars as its input, and
\* every string stored under an exempt key (the default skip set united with
\* the caller's skip_keys), at any depth, is returned unchanged whatever the
\* external translator returns
C16_ShapeAndExemptKeys ==
    (args.t = "translate_json_values" /\ result.t = "returned") =>
        /\ SameShape(args.v[1], result.v)
        /\ ExemptUnchanged(args.v[1], result.v, default_skip \cup args.v[3])

\* a record translated to EN with the caller's key "note": the background was
\* translated, the name, the dates three levels down and the note were not
C16_Witness ==
    /\ args.t = "translate_json_values"
    /\ result.t = "returned"
    /\ args.v = <<RecordOf(2), EN, {"note"}, "translates">>
    /\ result.v.v.abt_background = Str(<<"t","r","a","n","s","l","a","t","e","d"," ","e","x",
            "p","e","r","i","ê","n","c","i","a"," ","e","m"," ","v","e","n","d","a","s">>)
    /\ result.v.v.note = Str(<<"n","o","t","a"," ","d","o"," ","r","e","c","r","u","t","a","d",
            "o","r">>)
    /\ result.v.v.cdd_name = Str(<<"m","a","r","i","a"," ","s","i","l","v","a">>)
    /\ result.v.v.line_items.v[1].v.job_posts.v[1].v.start_date = Str(<<"m","a","r","ç","o"," ",
            "2","0","2","0">>)
    /\ result.v.v.line_items.v[1].v.job_posts.v[1].v.job_tasks.v[2].v.task
           = Str(<<"t","r","a","n","s","l","a","t","e","d"," ","v","e","n","d","e","r"," ",
                   "2">>)

(***************************************************************************)
(* parse_cv_to_json: from the LLM's answer to the validated record         *)
(***************************************************************************)

\* an answer of the LLM that json.loads rejects, with its text
Unparseable(text) == [t |-> "text", v |-> text]

\* an answer of the LLM that json.loads accepts, with the value it returns
Parseable(value) == [t |-> "json", v |-> value]

\* {"error": message}
ErrorResult(message) == Dict([error |-> Str(message)])

\* lines 558-570: the language loop on the validated record
with_languages(validated) ==
    [validated EXCEPT !.languages =
        List([i \in 1..Len(validated.languages.v) |->
                 Dict(language_entry(validated.languages.v[i].v,
                                     validated.report_lang.v))])]

\* lines 572-576: the translation target chosen from the record's report_lang
translated(validated, translator) ==
    IF validated.v.report_lang = Str(EN)
    THEN translate_json_values(validated, EN, {}, translator)
    ELSE IF validated.v.report_lang = Str(PT)
    THEN translate_json_values(validated, PT, {}, translator)
    ELSE validated

\* unified_report_generator.py lines 546-582, from json_output on; a report_lang
\* that is not a string ends in AttributeError at the first language
parse_cv_to_json(json_output, report_lang, company_title, translator) ==
    IF json_output.t = "text"
    THEN Dict([error |-> Str(<<"C","o","u","l","d"," ","n","o","t"," ","p","a","r","s","e"," ",
            "r","e","s","p","o","n","s","e"," ","a","s"," ","J","S","O","N",".">>),
               json_result |-> Str(json_output.v)])
    ELSE LET validated_data == enforce_schema(json_output.v, required_schema)
         IN  IF has_raised(validated_data) THEN ErrorResult(<<"T","y","p","e","E","r","r","o",
                 "r">>)
             ELSE IF ~is_str(validated_data.v.report_lang)
                     /\ Len(validated_data.v.languages.v) > 0
             THEN ErrorResult(<<"A","t","t","r","i","b","u","t","e","E","r","r","o","r">>)
             ELSE translated(
                      Dict(with_languages(
                          [validated_data.v EXCEPT !.company_title = Str(company_title)])),
                      translator)

\* parse_cv_to_json.py lines 134-200, from json_output on: the text itself
\* when json.loads rejects it; otherwise enforce_schema raises TypeError or
\* the call of the report endpoint raises NameError (headers is not defined),
\* and both end in the outer handler
parse_cv_to_json_flask(json_output, report_lang) ==
    IF json_output.t = "text" THEN Str(json_output.v)
    ELSE IF has_raised(enforce_schema(json_output.v, REQUIRED_SCHEMA))
    THEN ErrorResult(<<"T","y","p","e","E","r","r","o","r">>)
    ELSE ErrorResult(<<"n","a","m","e"," ","'","h","e","a","d","e","r","s","'"," ","i","s"," ",
            "n","o","t"," ","d","e","f","i","n","e","d">>)

(***************************************************************************)
(* The record of parse_cv_to_json as build_context reads it                *)
(***************************************************************************)

\* the elements of a JSON list of objects, as records
objects(list) == [i \in 1..Len(list.v) |-> list.v[i].v]

\* one employer: its fields, and its job posts as records
employer(item) ==
    [key \in DOMAIN item |->
        IF key = "job_posts" THEN objects(item[key]) ELSE item[key]]

\* the validated record: the characters of report_lang, the employers and the
\* languages as records, every other field as it is
as_record(validated) ==
    [key \in DOMAIN validated.v |->
        CASE key = "report_lang" -> validated.v[key].v
          [] key = "line_items" ->
                 [i \in 1..Len(validated.v[key].v) |->
                     employer(validated.v[key].v[i].v)]
          [] key \in {"languages", "academics"} -> objects(validated.v[key])
          [] OTHER -> validated.v[key]]

(***************************************************************************)
(* One request of the Streamlit front ends: run_streamlit of                *)
(* unified_report_generator.py, and streamlit_app.py with parse_cv_to_json  *)
(* of parse_cv_to_json.py                                                   *)
(***************************************************************************)

Apps == {"run_streamlit", "streamlit_app"}

NoDocument == [status |-> "none"]

\* answers of the LLM that are not JSON
TextAnswers ==
    {Unparseable(<<"H","e","r","e"," ","i","s"," ","t","h","e"," ","c","a","n","d","i","d","a",
            "t","e"," ","y","o","u"," ","a","s","k","e","d"," ","f","o","r">>),
     Unparseable(<<"{","\"","c","d","d","_","n","a","m","e","\"",":"," ","\"","A","n","a","\"",
             ",">>),
     Unparseable(<<"A","n"," ","e","r","r","o","r"," ","o","c","c","u","r","r","e","d"," ","w",
             "h","i","l","e"," ","r","e","a","d","i","n","g"," ","t","h","e"," ","C","V">>)}

\* answers of the LLM that are JSON: a complete record, records with keys
\* left out or with an empty list, a record with a number, and a bare number
JsonAnswers ==
    {Parseable(RecordOf(1)),
     Parseable(Dict([cdd_name |-> Str(<<"a","n","a"," ","l","i","m","a">>),
             report_lang |-> Str(<<"P","T">>)])),
     Parseable(Dict([cdd_name |-> Str(<<"a","n","a"," ","l","i","m","a">>),
             report_lang |-> Str(<<"p","t">>),
                     line_items |-> List(<<>>)])),
     Parseable(Dict([cdd_name |-> Str(<<"a","n","a"," ","l","i","m","a">>),
             report_lang |-> Str(<<"E","N">>),
                     cdd_ddd |-> Num(<<"1","1">>)])),
     Parseable(Five)}

InitRequest ==
    /\ \E app \in Apps : \E language \in ReportLangs :
         \E translator \in {"translates", "raises"} :
           \E llm_output \in TextAnswers \cup JsonAnswers :
             \E template_ok \in BOOLEAN :
               request = [app |-> app, language |-> language,
                          company |-> <<"A","c","m","e">>, company_title |-> <<"A","n","a","l",
                                  "y","s","t">>,
                          translator |-> translator, llm_output |-> llm_output,
                          template_ok |-> template_ok]
    /\ json_data = Pending
    /\ pc = "parse"
    /\ document = NoDocument
    /\ df_levels = CanonicalSheet
    /\ today = Day(5, 11, 2026)
    /\ FreshModule
    /\ pads_year = FALSE
    /\ data = Idle
    /\ context = Idle
    /\ date_str = Idle
    /\ lang_code = <<>>
    /\ norm_result = Idle
    /\ json_in = Idle
    /\ enforced = Idle
    /\ args = Idle
    /\ result = Idle

\* run_streamlit line 750, streamlit_app.py line 30
ParseCv ==
    /\ pc = "parse"
    /\ json_data' =
           IF request.app = "run_streamlit"
           THEN parse_cv_to_json(request.llm_output, request.language,
                                 request.company_title, request.translator)
           ELSE parse_cv_to_json_flask(request.llm_output, request.language)
    /\ pc' = "check"
    /\ UNCHANGED <<request, document, normalizer_vars, enforce_vars, context_vars,
                   call_vars, module_vars>>

\* "error" in json_data: a key of a dict, a substring of a str
error_in(value) ==
    CASE value.t = "dict" -> "error" \in DOMAIN value.v
      [] value.t = "str"  -> contains(value.v, <<"e","r","r","o","r">>)

\* json_data[key] = text
setitem(value, key, text) ==
    Dict([k \in DOMAIN value.v \cup {key} |-> IF k = key THEN Str(text) ELSE value.v[k]])

\* run_streamlit lines 756-762, streamlit_app.py lines 31-40: st.stop() on an
\* error result, else the form's fields are stored in json_data, which raises
\* TypeError when json_data is a str
CheckError ==
    /\ pc = "check"
    /\ IF error_in(json_data)
       THEN pc' = "stopped" /\ UNCHANGED json_data
       ELSE IF json_data.t = "str"
       THEN pc' = "TypeError" /\ UNCHANGED json_data
       ELSE /\ pc' = "generate"
            /\ json_data' =
                   IF request.app = "run_streamlit"
                   THEN setitem(json_data, "company", request.company)
                   ELSE setitem(setitem(json_data, "company", request.company),
                                "company_title", request.company_title)
    /\ UNCHANGED <<request, document, normalizer_vars, enforce_vars, context_vars,
                   call_vars, module_vars>>

\* run_streamlit lines 764-803: st.stop() when the template is missing or is
\* not a DOCX, or when build_context raises; else the context is rendered.
\* streamlit_app.py lines 57-64: the call of app.generate_report_from_data
\* with three arguments raises TypeError, which ends in st.stop()
GenerateReport ==
    /\ pc = "generate"
    /\ LET built == build_context(as_record(json_data), pads_year)
       IN  IF request.app = "run_streamlit" /\ request.template_ok
              /\ built.status = "built"
           THEN pc' = "done" /\ document' = built
           ELSE pc' = "stopped" /\ UNCHANGED document
    /\ UNCHANGED <<request, json_data, normalizer_vars, enforce_vars, context_vars,
                   call_vars, module_vars>>

NextRequest == ParseCv \/ CheckError \/ GenerateReport

SpecRequest == InitRequest /\ [][NextRequest]_vars

(***************************************************************************)
(* Properties of a request                                                 *)
(***************************************************************************)

\* C17: when the LLM response is not parseable JSON, parse_cv_to_json returns
\* an error result and the request ends there: the caller stops before
\* build_context and template rendering, and no report document is generated
C17_ParseFailureEndsRequest ==
    (pc # "idle" /\ request.llm_output.t = "text" /\ pc # "parse") =>
        /\ json_data.t = "dict"
        /\ "error" \in DOMAIN json_data.v
        /\ pc \in {"check", "stopped"}
        /\ document = NoDocument

(***************************************************************************)
(* The report language of a record that names none of PT and EN            *)
(***************************************************************************)

\* the record with report_lang "PT" in place of what it has
AsPortuguese(d) ==
    [key \in DOMAIN d \cup {"report_lang"} |-> IF key = "report_lang" THEN PT ELSE d[key]]

\* the record has no report_lang, an empty one, or one that is neither PT nor EN
UnknownReportLang == get(data, "report_lang", Missing) \notin {PT, EN}

\* C18: when the record's report_lang is missing, empty or any value other
\* than PT/EN, build_context behaves exactly as for report_lang "PT": the
\* context is the one of the same record with report_lang "PT" (Portuguese
\* present terms and month names, Portuguese level labels, Portuguese
\* report_date format, report_lang "PT" in the context)
C18_UnknownLanguageDefaultsToPT ==
    (Returned /\ UnknownReportLang) =>
        context = build_context(AsPortuguese(data), pads_year)

(***************************************************************************)
(* What build_context writes into the objects of the record it is given    *)
(***************************************************************************)

\* lines 600-637: the job object after its iteration; built holds the
\* start_val and end_val of the iteration
job_after(job, built) ==
    Dict([key \in DOMAIN job.v \cup {"job_title", "start_date", "end_date"} |->
        CASE key = "job_title"  -> smart_title(get(job.v, "job_title", Str(<<>>)))
          [] key = "start_date" -> Str(built.start_date)
          [] key = "end_date"   -> Str(built.end_date)
          [] key = "job_tasks"  ->
                 List([k \in 1..Len(job.v.job_tasks.v) |->
                          Dict([task |-> format_first(job.v.job_tasks.v[k].v.task)])])
          [] OTHER -> job.v[key]])

\* lines 590-654: the employer object after its iteration
item_after(item, built) ==
    Dict([key \in DOMAIN item.v \cup {"cdd_company", "company_desc", "company_start_date",
                                      "company_end_date", "job_count", "job_posts"} |->
        CASE key = "cdd_company"  -> built.cdd_company
          [] key = "company_desc" -> built.company_desc
          [] key = "company_start_date" -> Str(built.company_start_date)
          [] key = "company_end_date"   -> Str(built.company_end_date)
          [] key = "job_count" -> Num(digits(built.job_count))
          [] key = "job_posts" ->
                 List([j \in 1..built.job_count |->
                          job_after(item.v.job_posts.v[j], built.job_posts[j])])
          [] OTHER -> item.v[key]])

(***************************************************************************)
(* The objects of REQUIRED_SCHEMA that enforce_schema hands out            *)
(***************************************************************************)

\* line 308: the value is not a list or is empty, and the template list
\* itself is returned
templated(value) == value.t # "list" \/ value.v = <<>>

\* lines 302-303: the key is in the object and its value is replaced by the
\* template list
hands_out(object, key) ==
    object.t = "dict" /\ key \in DOMAIN object.v /\ templated(object.v[key])

\* the elements of the list at the key, none when the template was handed out
fresh(object, key) ==
    IF object.t = "dict" /\ key \in DOMAIN object.v /\ ~templated(object.v[key])
    THEN object.v[key].v ELSE <<>>

\* the positions of the employers of the parsed answer whose job_posts is the
\* template list
job_posts_handed_out(parsed) ==
    LET items == fresh(parsed, "line_items")
    IN  {i \in 1..Len(items) : hands_out(items[i], "job_posts")}

\* some job of the parsed answer has the template list as its job_tasks
job_tasks_handed_out(parsed) ==
    LET items == fresh(parsed, "line_items")
    IN  \E i \in 1..Len(items) :
            LET jobs == fresh(items[i], "job_posts")
            IN  \E j \in 1..Len(jobs) : hands_out(jobs[j], "job_tasks")

\* the objects of REQUIRED_SCHEMA that the value of enforce_schema refers to
template_objects(parsed) ==
    (IF hands_out(parsed, "line_items")
     THEN {"line_items", "line_items[0]", "job_posts", "job_posts[0]", "job_tasks",
           "job_tasks[0]"}
     ELSE {})
    \cup (IF job_posts_handed_out(parsed) # {}
          THEN {"job_posts", "job_posts[0]", "job_tasks", "job_tasks[0]"} ELSE {})
    \cup (IF job_tasks_handed_out(parsed) THEN {"job_tasks", "job_tasks[0]"} ELSE {})
    \cup (IF hands_out(parsed, "academics") THEN {"academics", "academics[0]"} ELSE {})
    \cup (IF hands_out(parsed, "languages") THEN {"languages", "languages[0]"} ELSE {})

\* lines 572-576: translate_json_values builds new lists and objects, so the
\* record refers to objects of the schema only when it is not translated
refers_to(parsed, validated) ==
    IF validated.t # "dict" \/ "error" \in DOMAIN validated.v THEN {}
    ELSE IF validated.v.report_lang \in {Str(EN), Str(PT)} THEN {}
    ELSE template_objects(parsed)

\* REQUIRED_SCHEMA after build_context(record): the template employer and
\* the template job are written where the record refers to them; an
\* exception in an earlier employer ends the loop before that
schema_after(schema, parsed, validated, pads) ==
    LET record == as_record(validated)
        report_lang == get(record, "report_lang", PT)
        items == [i \in 1..Len(record.line_items) |->
                     build_item(record.line_items[i], report_lang, pads)]
        reached(i) == \A k \in 1..i : ~items[k].raised
        employer0 == schema.v.line_items.v[1]
        job0 == employer0.v.job_posts.v[1]
        with_job0(built) ==
            [schema EXCEPT !.v.line_items =
                List(<<[employer0 EXCEPT !.v.job_posts = List(<<job_after(job0, built)>>)]>>)]
    IN  IF "line_items" \in refers_to(parsed, validated)
        THEN IF reached(1)
             THEN [schema EXCEPT !.v.line_items = List(<<item_after(employer0, items[1])>>)]
             ELSE schema
        ELSE IF "job_posts" \in refers_to(parsed, validated)
        THEN LET i == CHOOSE i \in job_posts_handed_out(parsed) : TRUE
             IN  IF reached(i) THEN with_job0(items[i].job_posts[1]) ELSE schema
        ELSE schema

(***************************************************************************)
(* A process that serves one request after the other: parse_cv_to_json on  *)
(* the answer of the LLM, then build_context on the record                 *)
(***************************************************************************)

\* a job with dates, and its tasks given as the LLM gives them
DatedJob(tasks) ==
    Dict([job_title |-> Str(<<"d","e","v">>), start_date |-> Str(<<"0","1","/","2","0","2",
            "0">>),
          end_date |-> Str(<<"a","t","u","a","l">>), job_tasks |-> tasks])

\* employers of an answer: with an empty job_posts, with a job whose
\* job_tasks is a string
AnsweredEmployers ==
    {Dict([cdd_company |-> Str(<<"A","c","m","e">>), job_posts |-> List(<<>>)]),
     Dict([cdd_company |-> Str(<<"A","c","m","e">>), job_posts |-> List(<<DatedJob(Str(<<"c",
             "o","d","e","d">>))>>)])}

\* values of line_items: an empty list, one employer
AnsweredLineItems == {List(<<>>)} \cup {List(<<e>>) : e \in AnsweredEmployers}

\* values of cdd_ddd: a string, a number
AnsweredDdd == {Str(<<"1","1">>), Num(<<"1","1">>)}

\* a field that the answer does not have
Absent == [t |-> "absent"]

\* the answer with the fields that are not Absent
Answer(fields) == Dict([key \in {k \in DOMAIN fields : fields[k] # Absent} |-> fields[key]])

\* the answers of the LLM that json.loads accepts
Answers ==
    {Answer([line_items |-> line_items, languages |-> languages, academics |-> academics,
             cdd_ddd |-> cdd_ddd, report_lang |-> report_lang]) :
        line_items \in AnsweredLineItems \cup {Absent},
        languages \in {List(<<>>), Absent},
        academics \in {Null, Absent},
        cdd_ddd \in AnsweredDdd,
        report_lang \in {Str(PT), Absent}}

\* the value of parse_cv_to_json is a record, not an error
is_record(value) == value.t = "dict" /\ "error" \notin DOMAIN value.v

\* no call of parse_cv_to_json is waiting for its build_context
NoRecordOutstanding ==
    \/ result = Idle
    \/ result.t = "returned" /\ (~is_record(result.v) \/ context.status # "pending")

InitSession ==
    /\ args = Idle
    /\ result = Idle
    /\ data = Idle
    /\ context = NotBuilt
    /\ FreshModule
    /\ df_levels = CanonicalSheet
    /\ today = Day(5, 11, 2026)
    /\ pads_year = FALSE
    /\ NoRequest
    /\ date_str = Idle
    /\ lang_code = <<>>
    /\ norm_result = Idle
    /\ json_in = Idle
    /\ enforced = Idle

\* json_data = parse_cv_to_json(...), lines 546-582 from the answer on; the
\* record of the call before becomes the record of an earlier request
ParseCvToJson ==
    /\ NoRecordOutstanding
    /\ \E answer \in Answers :
         /\ args' = Call("parse_cv_to_json", <<Parseable(answer), PT, <<"A","n","a","l","y","s",
                 "t">>>>)
         /\ result' = Returns(parse_cv_to_json(Parseable(answer), PT, <<"A","n","a","l","y","s",
                 "t">>, "translates"))
    /\ held' = IF result = Idle THEN held
               ELSE held \cup refers_to(args.v[1].v, result.v)
    /\ data' = Idle
    /\ context' = NotBuilt
    /\ UNCHANGED <<required_schema, pads_year, today, df_levels, normalizer_vars,
                   enforce_vars, request_vars>>

\* context = build_context(json_data), lines 584-720, with what it writes
\* into the objects of the schema that json_data refers to
BuildContextOfRecord ==
    /\ result # Idle
    /\ result.t = "returned"
    /\ is_record(result.v)
    /\ context.status = "pending"
    /\ data' = as_record(result.v)
    /\ context' = build_context(data', pads_year)
    /\ required_schema' = schema_after(required_schema, args.v[1].v, result.v, pads_year)
    /\ UNCHANGED <<held, pads_year, today, df_levels, normalizer_vars, enforce_vars,
                   call_vars, request_vars>>

NextSession == ParseCvToJson \/ BuildContextOfRecord

SpecSession == InitSession /\ [][NextSession]_vars

(***************************************************************************)
(* Properties of a process that serves several requests                    *)
(***************************************************************************)

\* the objects of the schema that the record of the request being served
\* refers to
RecordRefersTo ==
    IF args = Idle \/ result = Idle THEN {} ELSE refers_to(args.v[1].v, result.v)

\* C19: no mutable state is shared between requests: after any sequence of
\* requests (enforce_schema in parse_cv_to_json followed by build_context),
\* including requests whose line_items, job_posts, job_tasks, academics or
\* languages are empty or not lists, the module-level REQUIRED_SCHEMA is as
\* the module defines it, and no object of the record of an earlier request
\* is reachable from the record of a later request
C19_NoSharedMutableState ==
    /\ required_schema = REQUIRED_SCHEMA
    /\ RecordRefersTo \cap held = {}

\* the keys that the render context must have
ContextKeys == DOMAIN REQUIRED_SCHEMA.v \cup {"last_company", "report_date"}

\* C20: for every record produced by enforce_schema, build_context returns a
\* context that contains every top-level key of REQUIRED_SCHEMA plus
\* last_company and report_date, and every line item in it carries
\* company_start_date, company_end_date and job_count
C20_ContextHasEveryField ==
    (data # Idle /\ context.status # "pending") =>
        /\ context.status = "built"
        /\ ContextKeys \subseteq DOMAIN context
        /\ \A i \in 1..Len(context.line_items) :
               {"company_start_date", "company_end_date", "job_count"}
                   \subseteq DOMAIN context.line_items[i]

(***************************************************************************)
(* build_context on employers with long descriptions                       *)
(***************************************************************************)

\* a description of n characters with a space at position k, without a
\* space when k is 0
Description(n, k) == Str([i \in 1..n |-> IF i = k THEN " " ELSE "a"])

\* descriptions around the budget: shorter, equal, longer; no space, a space
\* at the start, in the middle, near the cut and after it
Descriptions ==
    {Description(n, k) : n \in 84..95, k \in {0, 1, 45, 80, 87, 88, 89, 90}}
    \cup {Str(<<>>), Str(<<"s","o","f","t","w","a","r","e"," ","h","o","u","s","e">>),
            Null, Five}

InitDescription ==
    /\ \E desc \in Descriptions :
         data = [report_lang |-> PT,
                 line_items |-> <<[cdd_company |-> Str(<<"A","c","m","e">>),
                         company_desc |-> desc,
                                   job_posts |-> <<>>]>>]
    /\ context = NotBuilt
    /\ df_levels = CanonicalSheet
    /\ today = Day(5, 11, 2026)
    /\ FreshModule
    /\ pads_year = FALSE
    /\ NoRequest
    /\ date_str = Idle
    /\ lang_code = <<>>
    /\ norm_result = Idle
    /\ json_in = Idle
    /\ enforced = Idle
    /\ args = Idle
    /\ result = Idle

NextDescription == BuildContext

SpecDescription == InitDescription /\ [][NextDescription]_vars

\* C21: build_context keeps every company description within the budget of
\* 89 characters: for every input company_desc (any length, with or without
\* spaces) the resulting company_desc has at most 89 characters
C21_DescriptionWithinBudget ==
    context.status = "built" =>
        \A i \in 1..Len(context.line_items) :
            Len(context.line_items[i].company_desc.v) <= 89

(***************************************************************************)
(* The present-term check and the other outcomes of an end date            *)
(***************************************************************************)

\* C22: in build_context the present-term check takes precedence over every
\* other outcome for an end date: every job whose raw end_date satisfies
\* is_present_term for the report language ends with end_date "PRESENT" and
\* makes its employer's company_end_date "PRESENT"; it is never turned into
\* a calendar date or into the sentinel "00/0000"
C22_PresentTermTakesPrecedence ==
    context.status = "built" =>
        \A i \in 1..Len(data.line_items) :
            \A j \in 1..Len(data.line_items[i].job_posts) :
                is_present_term(data.line_items[i].job_posts[j].end_date, data.report_lang)
                    => /\ context.line_items[i].job_posts[j].end_date = PRESENT
                       /\ context.line_items[i].company_end_date = PRESENT

(***************************************************************************)
(* The record of the caller after build_context                            *)
(***************************************************************************)

\* lines 590-671: the record passed to build_context as the loops over
\* line_items, academics and languages leave it, when no date raises
record_after(record, pads) ==
    LET report_lang == get(as_record(record), "report_lang", PT) IN
    Dict([key \in DOMAIN record.v |->
        CASE key = "line_items" ->
                 List([i \in 1..Len(record.v.line_items.v) |->
                          item_after(record.v.line_items.v[i],
                                     build_item(as_record(record).line_items[i],
                                                report_lang, pads))])
          [] key = "academics" ->
                 List([i \in 1..Len(record.v.academics.v) |->
                          Dict(academic_entry(record.v.academics.v[i].v))])
          [] key = "languages" ->
                 List([i \in 1..Len(record.v.languages.v) |->
                          Dict(language_entry(record.v.languages.v[i].v, report_lang))])
          [] OTHER -> record.v[key]])

\* employers as the LLM names them, with one job
NamedEmployers ==
    {Dict([cdd_company |-> Str(company), company_desc |-> Str(desc),
           job_posts |-> List(<<Dict([job_title |-> Str(<<"d","e","v">>),
                   start_date |-> Str(dates[1]),
                                      end_date |-> Str(dates[2])])>>)]) :
        company \in {<<"A","c","m","e">>, <<"A","C","M","E">>},
        desc \in {<<>>, <<"s","o","f","t","w","a","r","e"," ","h","o","u","s","e">>},
        dates \in {<<<<"0","1","/","2","0","2","0">>, <<"0","3","/","2","0","2","2">>>>,
                <<<<"j","a","n"," ","2","0","2","0">>, <<"a","t","u","a","l">>>>, <<<<"0","1",
                "/","2","0","2","0">>, <<"P","R","E","S","E","N","T">>>>}}

\* the validated records handed to build_context: with and without an
\* employer, a language, an academic degree
ValidatedRecords ==
    {enforce_schema(Answer([line_items |-> line_items, languages |-> languages,
                            academics |-> academics, report_lang |-> Str(report_lang)]),
                    REQUIRED_SCHEMA) :
        line_items \in {List(<<e>>) : e \in NamedEmployers} \cup {Absent},
        languages \in {List(<<Dict([language |-> Str(<<"e","n","g","l","i","s","h">>),
                                    language_level |-> Str(<<"f","l","u","e","n","t">>)])>>),
                                            Absent},
        academics \in {List(<<Dict([academic_course |-> Str(<<"c","o","m","p","u","t","e","r",
                " ","s","c","i","e","n","c","e">>)])>>), Absent},
        report_lang \in ReportLangs}

InitInPlace ==
    /\ \E record \in ValidatedRecords :
         /\ args = Call("build_context", <<record>>)
         /\ data = record
    /\ result = Pending
    /\ context = NotBuilt
    /\ df_levels = CanonicalSheet
    /\ today = Day(5, 11, 2026)
    /\ FreshModule
    /\ pads_year = FALSE
    /\ NoRequest
    /\ date_str = Idle
    /\ lang_code = <<>>
    /\ norm_result = Idle
    /\ json_in = Idle
    /\ enforced = Idle

\* context = build_context(data), lines 584-720: the value returned and the
\* record of the caller after the call
BuildContextInPlace ==
    /\ result = Pending
    /\ result' = Returns(build_context(as_record(data), pads_year))
    /\ data' = record_after(data, pads_year)
    /\ UNCHANGED <<args, context, pads_year, today, df_levels, normalizer_vars, enforce_vars,
                   request_vars, module_vars>>

NextInPlace == BuildContextInPlace

SpecInPlace == InitInPlace /\ [][NextInPlace]_vars

\* C23: build_context is a pure function of the candidate record: it does
\* not modify the record passed to it (line_items, job_posts, job_tasks,
\* academics and languages of the input are the same after the call as
\* before)
C23_RecordUnchanged ==
    (args # Idle /\ args.t = "build_context" /\ result # Pending) => data = args.v[1]

(***************************************************************************)
(* The list fields of the value of enforce_schema                          *)
(***************************************************************************)

\* the list is not empty, and neither is a list inside its elements
RECURSIVE NoEmptyList(_)
NoEmptyList(value) ==
    CASE value.t = "list" ->
             /\ value.v # <<>>
             /\ \A i \in 1..Len(value.v) : NoEmptyList(value.v[i])
      [] value.t = "dict" -> \A key \in DOMAIN value.v : NoEmptyList(value.v[key])
      [] OTHER -> TRUE

\* C24: for a list-typed schema field, enforce_schema returns the template's
\* one-element placeholder list when the value is not a list or is an empty
\* list, and otherwise returns a list of the same length as the value with
\* each element reconciled against the item template; hence no list field
\* of the result is ever empty
C24_ListFieldReconciled ==
    (enforced.t # "pending" /\ hands_out(json_in, "line_items")
        => /\ enforced.t = "dict"
           /\ enforced.v.line_items = REQUIRED_SCHEMA.v.line_items
           /\ NoEmptyList(enforced))
    /\ (enforced.t # "pending" /\ fresh(json_in, "line_items") # <<>>
        => /\ enforced.t = "dict"
           /\ ItemsHaveKeys(enforced.v.line_items, LINE_ITEM_TEMPLATE)
           /\ Len(enforced.v.line_items.v) = Len(json_in.v.line_items.v)
           /\ NoEmptyList(enforced))

(***************************************************************************)
(* A translator that raises, seen from the request                         *)
(***************************************************************************)

\* C25: a failing translation call never aborts the request: when the
\* external translation call raises, translate_text returns the original
\* text, so the record parse_cv_to_json returns is the complete validated
\* record with its texts as they were, and not an error result
C25_TranslationFailureKeepsText ==
    (/\ pc = "check"
     /\ request.app = "run_streamlit"
     /\ request.translator = "raises"
     /\ request.llm_output.t = "json"
     /\ ~has_raised(enforce_schema(request.llm_output.v, required_schema))
     /\ is_str(enforce_schema(request.llm_output.v, required_schema).v.report_lang)) =>
        /\ ~error_in(json_data)
        /\ json_data =
               Dict(with_languages(
                   [enforce_schema(request.llm_output.v, required_schema).v
                       EXCEPT !.company_title = Str(request.company_title)]))

\* the translator raised on the texts of a record whose report_lang is EN,
\* and parse_cv_to_json returned the record
C25_Witness ==
    /\ pc = "check"
    /\ request.app = "run_streamlit"
    /\ request.translator = "raises"
    /\ json_data.t = "dict"
    /\ ~error_in(json_data)
    /\ json_data.v.report_lang = Str(<<"E","N">>)
    /\ json_data.v.abt_background = Str(<<"e","x","p","e","r","i","ê","n","c","i","a"," ","e",
            "m"," ","v","e","n","d","a","s">>)
    /\ Len(json_data.v.line_items.v) > 0

(***************************************************************************)
(* The range of canonicalize_language_level                                *)
(***************************************************************************)

\* the five labels of one language
LabelsOf(key) == {label(CANONICAL_LANGUAGE_LEVELS[k], key) : k \in Levels}

C28_CanonicalizeTwice ==
    (args.t = "canonicalize_language_level" /\ result.t = "returned"
        /\ result.v # <<>>) =>
        canonicalize_language_level(Str(result.v), args.v[2]) = result.v

(***************************************************************************)
(* build_context applied to a record it has already processed              *)
(***************************************************************************)

\* lines 611, 636-637, 639: the record whose employers and job posts hold the
\* values build_context stored in them
processed(d, built) ==
    [d EXCEPT !.line_items =
        [i \in 1..Len(built.line_items) |->
            [cdd_company |-> built.line_items[i].cdd_company,
             job_posts |-> [j \in 1..Len(built.line_items[i].job_posts) |->
                               Job(Str(built.line_items[i].job_posts[j].start_date),
                                   Str(built.line_items[i].job_posts[j].end_date))]]]]

\* the employment dates of a context: the dates of every job, the dates of
\* every employer, and last_company
employment_dates(built) ==
    [line_items |-> [i \in 1..Len(built.line_items) |->
                        [job_posts |-> built.line_items[i].job_posts,
                         company_start_date |-> built.line_items[i].company_start_date,
                         company_end_date |-> built.line_items[i].company_end_date]],
     last_company |-> built.last_company]

\* C27: build_context is idempotent on employment dates: applied to a record
\* whose line_items it has already processed, it leaves every job start_date
\* and end_date, every company_start_date and company_end_date, and
\* last_company unchanged, for report_lang PT and EN
C27_IdempotentOnDates ==
    (context.status = "built" /\ data.report_lang \in {PT, EN}) =>
        /\ build_context(processed(data, context), pads_year).status = "built"
        /\ employment_dates(build_context(processed(data, context), pads_year))
               = employment_dates(context)

(***************************************************************************)
(* The language of a request                                               *)
(***************************************************************************)

\* the validated record were its report_lang the caller's
in_language(validated, report_lang) ==
    [validated EXCEPT !.report_lang = Str(report_lang)]

\* C29: the report language the user selects governs the whole request: the
\* language of the level canonicalization, the translation target and the
\* report_lang build_context reads later all equal the report_lang given to
\* parse_cv_to_json, whatever report_lang the LLM output holds; so the record
\* returned is the one obtained with the caller's report_lang in the record
C29_CallerLanguageGoverns ==
    (/\ pc = "check"
     /\ request.app = "run_streamlit"
     /\ request.llm_output.t = "json"
     /\ json_data.t = "dict"
     /\ ~error_in(json_data)) =>
        /\ get(as_record(json_data), "report_lang", PT) = request.language
        /\ json_data =
               translated(
                   Dict(with_languages(
                       in_language(
                           [enforce_schema(request.llm_output.v, required_schema).v
                               EXCEPT !.company_title = Str(request.company_title)],
                           request.language))),
                   request.translator)
====
